---- MODULE Spec2Model ----
(***************************************************************************)
(* Eye-tracking aviation: the debounce state machine                       *)
(* (src/domain/state_machine.py) and the session controller                *)
(* (src/app/controller.py).                                                *)
(*                                                                         *)
(* Time is time.monotonic() in whole seconds; the state machine converts   *)
(* differences to milliseconds exactly as the code does (times 1000).      *)
(***************************************************************************)
EXTENDS Integers, Sequences, FiniteSets, TLC

\* ---------------------------------------------------------------- bounds
\* Largest reading of the monotonic clock, in seconds.
MaxTime == 2
\* Longest event history explored before only reset is offered.
MaxEvents == 2
\* Cap of the ghost counter of updates since the last reset.
MaxCount == 3

\* ------------------------------------------------------------ data model
None == "None"

\* None of an Optional[float] timestamp (state_machine.py:24): no clock reading.
NoTime == -1

\* domain/models.py GazeState
GazeState == {"IN_COCKPIT", "OUT_OF_COCKPIT", "UNKNOWN"}

\* domain/state_machine.py:56 and domain/models.py:38: seconds to milliseconds
MsPerSecond == 1000

\* Values of Config.stable_ms the model explores (0, the default 200, 2000).
StableMsValues == {0, 200, 2000}

Time == 0..MaxTime

\* domain/models.py StateEvent
StateEvent(from_state, to_state, start_time, end_time) ==
    [from_state |-> from_state, to_state |-> to_state,
     start_time |-> start_time, end_time |-> end_time]

\* None of an Optional[StateEvent] (force_end_segment returning nothing)
NoEvent == StateEvent(None, None, NoTime, NoTime)

\* StateEvent.duration_ms
duration_ms(ev) == (ev.end_time - ev.start_time) * MsPerSecond

VARIABLES
    sm,      \* the StateMachine object's fields
    now,     \* last reading of the monotonic clock handed to the machine
    op,      \* the last call made on the machine: name, arguments, return value
    calls,   \* invocations of the transition callback made by the last call
    inputs   \* ghost: what the update calls since the last reset looked like

smVars == <<sm, now, op, calls, inputs>>

\* The controller around the state machine.
VARIABLES
    ctl,      \* the Controller object's fields
    threads,  \* the VisionWorker threads: position in _worker_loop and locals
    camera,   \* the Camera: started, and whether a frame has been captured
    files,    \* the session directories created under runs/
    ui,       \* the calling (UI) thread: idle, or inside a stop's join
    cop,      \* the Controller call that returned in the last step, if any
    signals,  \* the values on_auto_pause was invoked with since the session's start
    wizard    \* the CalibrationWizard and its GazeCalibrationWidget

ctlVars == <<ctl, threads, camera, files, ui, cop, signals, wizard>>
vars == <<sm, now, op, calls, inputs, ctl, threads, camera, files, ui, cop, signals, wizard>>

\* ------------------------------------------------------- the state machine

\* StateMachine.__init__
StateMachine_init(stable_ms) ==
    [stable_ms     |-> stable_ms,
     committed     |-> "UNKNOWN",
     segment_start |-> 0,
     pending       |-> None,
     pending_since |-> NoTime,
     events        |-> <<>>,
     on_transition |-> FALSE]

\* Variant of reset that keeps the event history.
Mut_reset_keeps_events(m, mono_time) ==
    [m EXCEPT !.committed = "UNKNOWN",
              !.segment_start = mono_time,
              !.pending = None,
              !.pending_since = NoTime]

\* StateMachine.reset
StateMachine_reset(m, mono_time) ==
    [m EXCEPT !.committed = "UNKNOWN",
              !.segment_start = mono_time,
              !.pending = None,
              !.pending_since = NoTime,
              !.events = <<>>]

\* A commit that leaves the open segment's start where it was.
Mut_commit_keeps_segment_start(m, new_state, mono_time) ==
    LET event == StateEvent(m.committed, new_state, m.segment_start, mono_time)
        atCall == [m EXCEPT !.events = Append(@, event)]
    IN  [sm    |-> [atCall EXCEPT !.committed = new_state,
                                  !.pending = None,
                                  !.pending_since = NoTime],
         calls |-> IF m.on_transition
                   THEN << [event |-> event, seen |-> atCall] >>
                   ELSE <<>>]

\* StateMachine._commit: the event is appended and the callback invoked (it
\* sees the machine with the event appended and nothing else changed yet),
\* then the committed state, the segment start and the pending fields are set.
StateMachine_commit(m, new_state, mono_time) ==
    LET event == StateEvent(m.committed, new_state, m.segment_start, mono_time)
        atCall == [m EXCEPT !.events = Append(@, event)]
    IN  [sm    |-> [atCall EXCEPT !.committed = new_state,
                                  !.segment_start = mono_time,
                                  !.pending = None,
                                  !.pending_since = NoTime],
         calls |-> IF m.on_transition
                   THEN << [event |-> event, seen |-> atCall] >>
                   ELSE <<>>]

\* Variants of update, each one slip away from the code.
\* The stability test is strict (> instead of >=).
Mut_update_strict(m, candidate, mono_time) ==
    IF candidate = m.committed
    THEN [sm    |-> [m EXCEPT !.pending = None, !.pending_since = NoTime],
          ret   |-> m.committed,
          calls |-> <<>>]
    ELSE IF candidate # m.pending
    THEN [sm    |-> [m EXCEPT !.pending = candidate, !.pending_since = mono_time],
          ret   |-> m.committed,
          calls |-> <<>>]
    ELSE IF (mono_time - m.pending_since) * MsPerSecond > m.stable_ms
    THEN LET c == StateMachine_commit(m, candidate, mono_time)
         IN  [sm |-> c.sm, ret |-> c.sm.committed, calls |-> c.calls]
    ELSE [sm |-> m, ret |-> m.committed, calls |-> <<>>]

\* A new candidate starts its timer and falls through to the stability test
\* (the early return is missing).
Mut_update_no_return(m, candidate, mono_time) ==
    IF candidate = m.committed
    THEN [sm    |-> [m EXCEPT !.pending = None, !.pending_since = NoTime],
          ret   |-> m.committed,
          calls |-> <<>>]
    ELSE LET m1 == IF candidate # m.pending
                   THEN [m EXCEPT !.pending = candidate, !.pending_since = mono_time]
                   ELSE m
         IN  IF (mono_time - m1.pending_since) * MsPerSecond >= m1.stable_ms
             THEN LET c == StateMachine_commit(m1, candidate, mono_time)
                  IN  [sm |-> c.sm, ret |-> c.sm.committed, calls |-> c.calls]
             ELSE [sm |-> m1, ret |-> m1.committed, calls |-> <<>>]

\* The timer is started only when nothing is pending, and any input that
\* differs from the committed state then counts towards it.
Mut_update_any_pending(m, candidate, mono_time) ==
    IF candidate = m.committed
    THEN [sm    |-> [m EXCEPT !.pending = None, !.pending_since = NoTime],
          ret   |-> m.committed,
          calls |-> <<>>]
    ELSE IF m.pending = None
    THEN [sm    |-> [m EXCEPT !.pending = candidate, !.pending_since = mono_time],
          ret   |-> m.committed,
          calls |-> <<>>]
    ELSE IF (mono_time - m.pending_since) * MsPerSecond >= m.stable_ms
    THEN LET c == StateMachine_commit(m, candidate, mono_time)
         IN  [sm |-> c.sm, ret |-> c.sm.committed, calls |-> c.calls]
    ELSE [sm |-> m, ret |-> m.committed, calls |-> <<>>]

\* A new candidate replaces the pending one but inherits its timer.
Mut_update_keep_clock(m, candidate, mono_time) ==
    IF candidate = m.committed
    THEN [sm    |-> [m EXCEPT !.pending = None, !.pending_since = NoTime],
          ret   |-> m.committed,
          calls |-> <<>>]
    ELSE IF candidate # m.pending
    THEN [sm    |-> [m EXCEPT !.pending = candidate,
                              !.pending_since = IF m.pending = None
                                                THEN mono_time ELSE m.pending_since],
          ret   |-> m.committed,
          calls |-> <<>>]
    ELSE IF (mono_time - m.pending_since) * MsPerSecond >= m.stable_ms
    THEN LET c == StateMachine_commit(m, candidate, mono_time)
         IN  [sm |-> c.sm, ret |-> c.sm.committed, calls |-> c.calls]
    ELSE [sm |-> m, ret |-> m.committed, calls |-> <<>>]

\* An input equal to the committed state leaves the pending candidate alone.
Mut_update_no_clear(m, candidate, mono_time) ==
    IF candidate = m.committed
    THEN [sm |-> m, ret |-> m.committed, calls |-> <<>>]
    ELSE IF candidate # m.pending
    THEN [sm    |-> [m EXCEPT !.pending = candidate, !.pending_since = mono_time],
          ret   |-> m.committed,
          calls |-> <<>>]
    ELSE IF (mono_time - m.pending_since) * MsPerSecond >= m.stable_ms
    THEN LET c == StateMachine_commit(m, candidate, mono_time)
         IN  [sm |-> c.sm, ret |-> c.sm.committed, calls |-> c.calls]
    ELSE [sm |-> m, ret |-> m.committed, calls |-> <<>>]

\* StateMachine.update: the new machine, the returned state and the callback
\* invocations made.
StateMachine_update(m, candidate, mono_time) ==
    IF candidate = m.committed
    THEN [sm    |-> [m EXCEPT !.pending = None, !.pending_since = NoTime],
          ret   |-> m.committed,
          calls |-> <<>>]
    ELSE IF candidate # m.pending
    THEN [sm    |-> [m EXCEPT !.pending = candidate, !.pending_since = mono_time],
          ret   |-> m.committed,
          calls |-> <<>>]
    ELSE LET elapsed_ms == (mono_time - m.pending_since) * MsPerSecond
         IN  IF elapsed_ms >= m.stable_ms
             THEN LET c == StateMachine_commit(m, candidate, mono_time)
                  IN  [sm |-> c.sm, ret |-> c.sm.committed, calls |-> c.calls]
             ELSE [sm |-> m, ret |-> m.committed, calls |-> <<>>]

\* Variants of force_end_segment.
\* The guard is strict (< instead of <=).
Mut_force_end_segment_lt(m, mono_time) ==
    IF mono_time < m.segment_start
    THEN [sm |-> m, ret |-> NoEvent, calls |-> <<>>]
    ELSE LET event == StateEvent(m.committed, m.committed, m.segment_start, mono_time)
         IN  [sm    |-> [m EXCEPT !.events = Append(@, event)],
              ret   |-> event,
              calls |-> <<>>]

\* The closing event is reported to the transition callback like a commit.
Mut_force_end_segment_fires(m, mono_time) ==
    IF mono_time <= m.segment_start
    THEN [sm |-> m, ret |-> NoEvent, calls |-> <<>>]
    ELSE LET event == StateEvent(m.committed, m.committed, m.segment_start, mono_time)
             after == [m EXCEPT !.events = Append(@, event)]
         IN  [sm    |-> after,
              ret   |-> event,
              calls |-> IF m.on_transition
                        THEN << [event |-> event, seen |-> after] >>
                        ELSE <<>>]

\* The closing event opens a new segment and drops the pending candidate.
Mut_force_end_segment_restarts(m, mono_time) ==
    IF mono_time <= m.segment_start
    THEN [sm |-> m, ret |-> NoEvent, calls |-> <<>>]
    ELSE LET event == StateEvent(m.committed, m.committed, m.segment_start, mono_time)
         IN  [sm    |-> [m EXCEPT !.events = Append(@, event),
                                  !.segment_start = mono_time,
                                  !.pending = None,
                                  !.pending_since = NoTime],
              ret   |-> event,
              calls |-> <<>>]

\* StateMachine.force_end_segment: the new machine, the returned event (NoEvent
\* when nothing is returned) and the callback invocations made (none).
StateMachine_force_end_segment(m, mono_time) ==
    IF mono_time <= m.segment_start
    THEN [sm |-> m, ret |-> NoEvent, calls |-> <<>>]
    ELSE LET event == StateEvent(m.committed, m.committed, m.segment_start, mono_time)
         IN  [sm    |-> [m EXCEPT !.events = Append(@, event)],
              ret   |-> event,
              calls |-> <<>>]

\* StateMachine.set_on_transition
StateMachine_set_on_transition(m) == [m EXCEPT !.on_transition = TRUE]

\* ui/main_window.py _open_settings: state_machine.stable_ms = config.stable_ms
StateMachine_set_stable_ms(m, stable_ms) == [m EXCEPT !.stable_ms = stable_ms]

\* StateMachine.current_state
current_state(m) == m.committed

\* ------------------------------------------------------------------ ghosts
\* What the update calls since the last reset looked like:
\*   n         how many there were (capped at MaxCount)
\*   last      the candidate of the latest one, last2 of the one before it
\*   lastT     the timestamp of the latest one
\*   runSince  the timestamp of the first update of the current run of
\*             consecutive updates with candidate `last`
\*   flicker   every update so far alternated between two states, each less
\*             than stable_ms after the one before it
\*   fired     the transition callback was invoked since the reset
\*   t0        the timestamp of the reset (0 after __init__)
\*   forced    0 while only updates were made, 1 once force_end_segment was
\*             called and nothing followed it, 2 after any further update or
\*             force_end_segment
\*   closed    a force_end_segment since the reset appended its event
\* The record `op` of a reset also holds `cleared`, the length of the event
\* history the reset dropped.
NoInputs ==
    [n |-> 0, last |-> None, last2 |-> None, lastT |-> 0, runSince |-> 0,
     flicker |-> TRUE, fired |-> FALSE, t0 |-> 0, forced |-> 0, closed |-> FALSE]

Min(a, b) == IF a < b THEN a ELSE b

InputsAfterUpdate(i, m, candidate, mono_time, made) ==
    [n        |-> Min(i.n + 1, MaxCount),
     last     |-> candidate,
     last2    |-> i.last,
     lastT    |-> mono_time,
     runSince |-> IF i.n > 0 /\ i.last = candidate THEN i.runSince ELSE mono_time,
     flicker  |-> /\ i.flicker
                  /\ i.n > 0 =>
                       /\ candidate # i.last
                       /\ i.last2 # None => candidate = i.last2
                       /\ (mono_time - i.lastT) * MsPerSecond < m.stable_ms,
     fired    |-> i.fired \/ made # <<>>,
     t0       |-> i.t0,
     forced   |-> IF i.forced = 0 THEN 0 ELSE 2,
     closed   |-> i.closed]

\* ------------------------------------------------------------------ actions
SMInit ==
    /\ sm \in {StateMachine_init(s) : s \in StableMsValues}
    /\ now = 0
    /\ op = [name |-> "init", candidate |-> None, t |-> 0, ret |-> None]
    /\ calls = <<>>
    /\ inputs = NoInputs

Reset(t) ==
    /\ sm' = StateMachine_reset(sm, t)
    /\ now' = t
    /\ op' = [name |-> "reset", candidate |-> None, t |-> t, ret |-> None,
              cleared |-> Len(sm.events)]
    /\ calls' = <<>>
    /\ inputs' = [NoInputs EXCEPT !.t0 = t]
    /\ UNCHANGED ctlVars

Update(candidate, t) ==
    /\ Len(sm.events) < MaxEvents
    /\ LET r == StateMachine_update(sm, candidate, t)
       IN  /\ sm' = r.sm
           /\ op' = [name |-> "update", candidate |-> candidate, t |-> t, ret |-> r.ret]
           /\ calls' = r.calls
           /\ inputs' = InputsAfterUpdate(inputs, sm, candidate, t, r.calls)
    /\ now' = t
    /\ UNCHANGED ctlVars

ForceEndSegment(t) ==
    /\ Len(sm.events) < MaxEvents
    /\ LET r == StateMachine_force_end_segment(sm, t)
       IN  /\ sm' = r.sm
           /\ op' = [name |-> "force_end_segment", candidate |-> None, t |-> t,
                     ret |-> r.ret]
           /\ calls' = r.calls
    /\ now' = t
    /\ inputs' = [inputs EXCEPT !.flicker = FALSE,
                                !.forced = Min(@ + 1, 2),
                                !.closed = @ \/ sm' # sm]
    /\ UNCHANGED ctlVars

SetOnTransition ==
    /\ ~sm.on_transition
    /\ sm' = StateMachine_set_on_transition(sm)
    /\ op' = [name |-> "set_on_transition", candidate |-> None, t |-> now, ret |-> None]
    /\ calls' = <<>>
    /\ UNCHANGED <<now, inputs>>
    /\ UNCHANGED ctlVars

OpenSettings(stable_ms) ==
    /\ stable_ms # sm.stable_ms
    /\ sm' = StateMachine_set_stable_ms(sm, stable_ms)
    /\ op' = [name |-> "open_settings", candidate |-> None, t |-> now, ret |-> None]
    /\ calls' = <<>>
    /\ UNCHANGED <<now, inputs>>
    /\ UNCHANGED ctlVars

SMNext ==
    \/ \E t \in now..MaxTime : Reset(t)
    \/ \E c \in GazeState, t \in now..MaxTime : Update(c, t)
    \/ \E t \in now..MaxTime : ForceEndSegment(t)
    \/ SetOnTransition
    \/ \E s \in StableMsValues : OpenSettings(s)


\* ============================================================== metrics
\* domain/metrics.py. Numbers the code rounds are kept as integers in the unit
\* of the last decimal it keeps: seconds rounded to 3 decimals in thousandths,
\* percentages and millisecond figures rounded to 1 decimal in tenths,
\* coordinates rounded to 4 decimals in ten-thousandths.

\* round(n / d, 0) for n >= 0 and d > 0: to the nearest integer, a tie to the
\* even one.
RoundHalfEven(n, d) ==
    LET q == n \div d
        r == n % d
    IN  IF 2 * r < d THEN q
        ELSE IF 2 * r > d THEN q + 1
        ELSE IF q % 2 = 0 THEN q ELSE q + 1

RECURSIVE SumSeq(_)
SumSeq(s) == IF s = <<>> THEN 0 ELSE Head(s) + SumSeq(Tail(s))

RECURSIVE MaxSeq(_)
MaxSeq(s) ==
    IF Len(s) = 1 THEN Head(s)
    ELSE LET m == MaxSeq(Tail(s)) IN IF Head(s) >= m THEN Head(s) ELSE m

\* sorted(s)
RECURSIVE Sorted(_)
Sorted(s) ==
    IF s = <<>> THEN <<>>
    ELSE LET rest == Sorted(Tail(s))
             lo == SelectSeq(rest, LAMBDA x : x <= Head(s))
             hi == SelectSeq(rest, LAMBDA x : x > Head(s))
         IN  lo \o <<Head(s)>> \o hi

\* statistics.mean(s) of a non-empty list, times `scale` and rounded
MeanRounded(s, scale) == RoundHalfEven(SumSeq(s) * scale, Len(s))

\* statistics.median(s) of a non-empty list, times `scale` and rounded: the
\* middle element, or the mean of the two middle ones
MedianRounded(s, scale) ==
    LET t == Sorted(s)
        n == Len(s)
    IN  IF n % 2 = 1
        THEN t[(n + 1) \div 2] * scale
        ELSE RoundHalfEven((t[n \div 2] + t[n \div 2 + 1]) * scale, 2)

\* The durations of the events that arrive in `state`, in event order.
Mut_DurationsFrom_to_state(events, state) ==
    LET evs == SelectSeq(events, LAMBDA ev : ev.to_state = state)
    IN  [i \in 1..Len(evs) |-> duration_ms(evs[i])]

\* The durations of the events that leave `state`, in event order.
DurationsFrom(events, state) ==
    LET evs == SelectSeq(events, LAMBDA ev : ev.from_state = state)
    IN  [i \in 1..Len(evs) |-> duration_ms(evs[i])]

\* samples[::3], with the fields the timeline keeps
Timeline(samples) ==
    [k \in 1..((Len(samples) + 2) \div 3) |->
        LET s == samples[3 * k - 2]
        IN  [t_s   |-> (s.timestamp_mono - samples[1].timestamp_mono) * MsPerSecond,
             gx    |-> RoundHalfEven(s.gaze_x_norm.num * 10000, s.gaze_x_norm.den),
             gy    |-> RoundHalfEven(s.gaze_y_norm.num * 10000, s.gaze_y_norm.den),
             state |-> s.state]]

\* compute_debrief(samples, events, session_duration_s), the duration in
\* whole seconds. state_durations_s is summed in milliseconds, which are the
\* thousandths round(x, 3) keeps; a percentage is seconds / total * 100, in
\* tenths milliseconds / total.
compute_debrief(samples, events, session_duration_s) ==
    LET in_ms  == SumSeq(DurationsFrom(events, "IN_COCKPIT"))
        out_ms == SumSeq(DurationsFrom(events, "OUT_OF_COCKPIT"))
        unk_ms == SumSeq(DurationsFrom(events, "UNKNOWN"))
        total  == IF session_duration_s > 0 THEN session_duration_s ELSE 1
        out_segments_ms == DurationsFrom(events, "OUT_OF_COCKPIT")
        n_out_glances ==
            Len(SelectSeq(events, LAMBDA ev : ev.to_state = "OUT_OF_COCKPIT"))
        confs == SelectSeq(samples, LAMBDA s : s.confidence > 0)
        conf_values == [i \in 1..Len(confs) |-> confs[i].confidence]
    IN  [total_duration_s |-> session_duration_s * MsPerSecond,
         in_cockpit_s     |-> in_ms,
         out_cockpit_s    |-> out_ms,
         unknown_s        |-> unk_ms,
         in_cockpit_pct   |-> RoundHalfEven(in_ms, total),
         out_cockpit_pct  |-> RoundHalfEven(out_ms, total),
         unknown_pct      |-> RoundHalfEven(unk_ms, total),
         n_out_glances    |-> n_out_glances,
         out_durations_ms |-> [i \in 1..Len(out_segments_ms) |-> out_segments_ms[i] * 10],
         avg_out_ms       |-> IF out_segments_ms # <<>>
                              THEN MeanRounded(out_segments_ms, 10) ELSE 0,
         median_out_ms    |-> IF out_segments_ms # <<>>
                              THEN MedianRounded(out_segments_ms, 10) ELSE 0,
         max_out_ms       |-> IF out_segments_ms # <<>>
                              THEN MaxSeq(out_segments_ms) * 10 ELSE 0,
         total_samples    |-> Len(samples),
         avg_confidence   |-> IF conf_values # <<>>
                              THEN MeanRounded(conf_values, 10) ELSE 0,
         timeline         |-> Timeline(samples)]


\* ============================================================ controller
\* ---------------------------------------------------------------- bounds
\* Sessions that may be started in one run of the controller; each spawns
\* one thread.
MaxSessions == 1
\* Samples a session may collect before its worker is given no more frames.
MaxSamples == 1
\* Samples of the one session of a run that floods the result queue.
MaxBurst == 6
\* Largest clock reading and number of samples of a session in which the face
\* is lost and found again.
MaxPauseClock == 6
MaxPauseSamples == 5
\* Longest event list handed to compute_debrief on its own.
MaxDebriefEvents == 2
\* Threads a run of the controller may spawn (one per started session) where
\* sessions follow one another.
MaxThreads == 2
\* iterations of a session on a failing disk
MaxDiskSamples == 2
\* frames the capture device delivers
MaxFrames == 3
\* calls made on an EMAFilter
MaxEmaCalls == 4
\* samples of a session whose gaze coordinates are followed
MaxGazeSamples == 3

\* ------------------------------------------------------------- constants
\* controller.py:75 queue.Queue(maxsize=5)
QueueMaxSize == 5
\* config.py:22 min_confidence = 0.30, in hundredths
MinConfidence == 30
\* config.py:27 auto_pause_seconds = 3.0
AutoPauseSeconds == 3
\* config.py:23 ema_alpha = 0.30 = EmaAlphaNum / EmaAlphaDen
EmaAlphaNum == 3
EmaAlphaDen == 10

\* ------------------------------------------------------------- optionals
\* Optional[T]: Nothing is None, Some(x) a present value.
Nothing == <<>>
Some(x) == <<x>>
Get(o) == o[1]

\* ------------------------------------------------------------- rationals
\* A gaze coordinate is the exact rational num/den (den > 0), in lowest terms.
RECURSIVE Gcd(_, _)
Gcd(a, b) == IF b = 0 THEN a ELSE Gcd(b, a % b)

Abs(n) == IF n < 0 THEN -n ELSE n

Rat(n, d) ==
    LET g == Gcd(Abs(n), d)
    IN  [num |-> n \div g, den |-> d \div g]
Half == Rat(1, 2)

\* np.clip(x, 0.0, 1.0)
Clip01(x) == IF x.num < 0 THEN Rat(0, 1) ELSE IF x.num > x.den THEN Rat(1, 1) ELSE x

\* ------------------------------------------------------------------ EMA
\* EMAFilter: its state (_x, _y) is Nothing or Some(<<x, y>>); its alpha is
\* the rational the controller holds beside it.
\* alpha * x + (1.0 - alpha) * prev
EMAFilter_blend(alpha, x, prev) ==
    Rat(alpha.num * x.num * prev.den + (alpha.den - alpha.num) * prev.num * x.den,
        alpha.den * x.den * prev.den)

\* EMAFilter.update: the new state; the returned point is its content.
EMAFilter_update(alpha, e, x, y) ==
    IF e = Nothing
    THEN Some(<<x, y>>)
    ELSE Some(<<EMAFilter_blend(alpha, x, Get(e)[1]),
                EMAFilter_blend(alpha, y, Get(e)[2])>>)

\* EMAFilter.reset
EMAFilter_reset(e) == Nothing

\* ------------------------------------------------------------ calibration
\* A polygon vertex is <<x, y>> in quarters of the normalised widget.
AoiUnit == 4
Square == << <<1, 1>>, <<3, 1>>, <<3, 3>>, <<1, 3>> >>
Segment == << <<1, 1>>, <<3, 3>> >>

\* Calibration artifacts a profile may hold or the wizard may hand over:
\* gaze_mapper is TRUE for a serialised fitted mapper, FALSE for the {} an
\* unfitted mapper serialises to (GazeMapper.to_dict).
CalibrationData ==
    { [id |-> 1, gaze_mapper |-> TRUE,  aoi_polygon |-> Square],
      [id |-> 2, gaze_mapper |-> TRUE,  aoi_polygon |-> Segment],
      [id |-> 3, gaze_mapper |-> FALSE, aoi_polygon |-> Square] }

\* storage/calibration_store.py calibration_hash: a function of the data.
calibration_hash(data) == data.id

\* Raw outputs of the two regressors for a feature vector, before clamping.
RawPredictions ==
    { <<Rat(1, 2), Rat(1, 2)>>, <<Rat(3, 2), Rat(-1, 2)>> }

\* A predict that returns the regressors' output as it is.
Mut_predict_unclamped(raw) == raw

\* GazeMapper.predict: the raw regression output clamped to [0,1] x [0,1].
GazeMapper_predict(raw) == <<Clip01(raw[1]), Clip01(raw[2])>>

\* ------------------------------------------------- calibration wizard
\* calibration/gaze_calibration.py:22 the 9 points of _CAL_POINTS
CalPoints == 9
\* calibration/gaze_calibration.py:182 the fewest points _fit_model accepts
MinCalPoints == 5
\* Features buffered for one calibration dot before more are not told apart.
MaxFeatures == 1
\* The id under which the model tells the wizard's artifact from the profiles'.
WizardCalibrationId == 4

\* GazeMapper.__init__; fitted_on is a ghost, the number of rows of the fit.
GazeMapper_init == [is_fitted |-> FALSE, fitted_on |-> 0]

\* GazeMapper.fit on n rows: the pipelines are fitted and _is_fitted is set,
\* whatever n is, unless the scaler rejects an empty array (ValueError) before
\* that.
GazeMapper_fit(m, n) ==
    IF n = 0
    THEN [mapper |-> m, result |-> "ValueError"]
    ELSE [mapper |-> [is_fitted |-> TRUE, fitted_on |-> n], result |-> "rms"]

\* GazeMapper.predict on a mapper object: RuntimeError unless fitted.
GazeMapper_predict_on(m, raw) ==
    IF ~m.is_fitted THEN "RuntimeError" ELSE GazeMapper_predict(raw)

\* CalibrationWizard.__init__ with its GazeCalibrationWidget: the wizard's
\* page, _step1_started and _mapper, and the widget's _state, _point_idx,
\* _features_list (the indices of the points committed, as _targets_list
\* has their targets) and the size of _current_features.
Wizard_init ==
    [page             |-> 0,
     step1_started    |-> FALSE,
     mapper           |-> Nothing,
     state            |-> "idle",
     point_idx        |-> 0,
     features_list    |-> <<>>,
     current_features |-> 0]

\* GazeCalibrationWidget.start
GazeCalibrationWidget_start(wz) ==
    [wz EXCEPT !.point_idx = 0, !.features_list = <<>>,
               !.current_features = 0, !.state = "settle"]

\* GazeCalibrationWidget._commit_point
GazeCalibrationWidget_commit_point(wz) ==
    IF wz.current_features = 0
    THEN wz
    ELSE [wz EXCEPT !.features_list = Append(@, wz.point_idx)]

\* _fit_model accepting any number of points.
Mut_fit_model_unguarded(wz) ==
    LET f == GazeMapper_fit(GazeMapper_init, Len(wz.features_list))
    IN  [wizard |-> [wz EXCEPT !.state = "done", !.mapper = Some(f.mapper)],
         signal |-> "calibration_done",
         mapper |-> Some(f.mapper)]

\* GazeCalibrationWidget._fit_model with the wizard's slots for the signal it
\* emits (_on_gaze_cal_failed, _on_gaze_cal_done): the new wizard, the signal
\* and the mapper handed over with it.
GazeCalibrationWidget_fit_model(wz) ==
    IF Len(wz.features_list) < MinCalPoints
    THEN [wizard |-> [wz EXCEPT !.state = "fitting", !.step1_started = FALSE],
          signal |-> "calibration_failed",
          mapper |-> Nothing]
    ELSE LET f == GazeMapper_fit(GazeMapper_init, Len(wz.features_list))
         IN  [wizard |-> [wz EXCEPT !.state = "done", !.mapper = Some(f.mapper)],
              signal |-> "calibration_done",
              mapper |-> Some(f.mapper)]

\* ------------------------------------------------------- point_in_polygon
\* The point (gx, gy) and the vertices brought to one integer grid.
GridPoint(gx, gy) ==
    <<gx.num * gy.den * AoiUnit, gy.num * gx.den * AoiUnit>>
GridVertex(v, gx, gy) ==
    <<v[1] * gx.den * gy.den, v[2] * gx.den * gy.den>>

Cross(a, b, p) == (b[1] - a[1]) * (p[2] - a[2]) - (b[2] - a[2]) * (p[1] - a[1])

Between(lo, hi, x) == (lo <= x /\ x <= hi) \/ (hi <= x /\ x <= lo)

OnEdge(a, b, p) ==
    /\ Cross(a, b, p) = 0
    /\ Between(a[1], b[1], p[1])
    /\ Between(a[2], b[2], p[2])

\* The ray from p towards +x crosses the edge a-b.
RayCrosses(a, b, p) ==
    /\ (a[2] > p[2]) # (b[2] > p[2])
    /\ IF b[2] > a[2] THEN Cross(a, b, p) > 0 ELSE Cross(a, b, p) < 0

\* cv2.pointPolygonTest(pts, p, False) >= 0: inside or on the boundary.
PolygonTestNonNegative(pts, p) ==
    LET n == Len(pts)
        nxt(i) == IF i = n THEN 1 ELSE i + 1
        edges == 1..n
    IN  \/ \E i \in edges : OnEdge(pts[i], pts[nxt(i)], p)
        \/ Cardinality({i \in edges : RayCrosses(pts[i], pts[nxt(i)], p)}) % 2 = 1

\* np.array(..., dtype=np.float32) for the vertices and cv2's Point2f for the
\* point: a coordinate is rounded to the nearest single-precision value, a
\* tie to the even one. The multiples of 1/Float32Den stand for the
\* single-precision values; the result is in that unit.
Float32Den == 16
Float32(x) == RoundHalfEven(x.num * Float32Den, x.den)

\* A hit test that goes to the geometric test whatever the polygon.
Mut_point_in_polygon_unguarded(gx, gy, polygon) ==
    PolygonTestNonNegative(
        [i \in 1..Len(polygon) |-> <<Float32(Rat(polygon[i][1], AoiUnit)),
                                     Float32(Rat(polygon[i][2], AoiUnit))>>],
        <<Float32(gx), Float32(gy)>>)

\* app/controller.py point_in_polygon
point_in_polygon(gx, gy, polygon) ==
    IF Len(polygon) < 3
    THEN FALSE
    ELSE PolygonTestNonNegative(
             [i \in 1..Len(polygon) |-> <<Float32(Rat(polygon[i][1], AoiUnit)),
                                          Float32(Rat(polygon[i][2], AoiUnit))>>],
             <<Float32(gx), Float32(gy)>>)

\* ------------------------------------------------------ controller state
\* Largest reading of the monotonic clock in a controller run, in seconds.
MaxClock == 1

ThreadIds == 1..MaxThreads

\* Outcomes of FaceTracker.process for a frame: no face, or a face with a
\* confidence (in hundredths) and the regressors' raw output for its features.
FaceResults ==
    {Nothing} \cup
    { Some([confidence |-> c, raw |-> r]) : c \in {10, MinConfidence}, r \in RawPredictions }

\* The locals of a worker that is not inside an iteration. `model` is a
\* ghost: the calibration whose gaze model the iteration's predict ran on.
NoLocals ==
    [face |-> Nothing, mono_ts |-> 0, gaze |-> <<Half, Half>>, conf |-> 0,
     raw_state |-> "UNKNOWN", auto_paused |-> FALSE, sample |-> Nothing,
     model |-> Nothing]

Thread(pc) == [pc |-> pc, loc |-> NoLocals]

\* Controller.__init__
Controller_init ==
    [gaze_mapper        |-> Nothing,
     ema                |-> Nothing,
     ema_alpha          |-> Rat(EmaAlphaNum, EmaAlphaDen),
     aoi                |-> Nothing,
     face_tracker       |-> FALSE,
     session_writer     |-> Nothing,
     session_dir        |-> Nothing,
     session_meta       |-> Nothing,
     session_start_mono |-> 0,
     samples            |-> <<>>,
     result_queue       |-> <<>>,
     worker_thread      |-> Nothing,
     worker_running     |-> FALSE,
     face_lost_since    |-> NoTime,
     auto_paused        |-> FALSE,
     calib_data         |-> Nothing,
     on_auto_pause      |-> FALSE]

\* is_calibrated without the count of the AOI's vertices.
Mut_is_calibrated_any_aoi(c) ==
    /\ c.gaze_mapper # Nothing
    /\ Get(c.gaze_mapper).is_fitted
    /\ c.aoi # Nothing

\* Controller.is_calibrated
is_calibrated(c) ==
    /\ c.gaze_mapper # Nothing
    /\ Get(c.gaze_mapper).is_fitted
    /\ c.aoi # Nothing
    /\ Len(Get(c.aoi)) >= 3

\* Controller._apply_calibration: _calib_data is stored first; from_dict then
\* raises KeyError on a gaze_mapper entry without its keys, before the mapper
\* and the AOI are replaced.
Controller_apply_calibration(c, data) ==
    LET c1 == [c EXCEPT !.calib_data = Some(data)]
    IN  IF ~data.gaze_mapper
        THEN [ctl |-> c1, result |-> "KeyError"]
        ELSE [ctl |-> [c1 EXCEPT
                          !.gaze_mapper = Some([calib |-> data.id, is_fitted |-> TRUE]),
                          !.aoi = Some(data.aoi_polygon)],
              result |-> "ok"]

\* SessionWriter.__init__
SessionWriter_init(dir) ==
    [session_dir |-> dir, closed |-> FALSE, samples_csv |-> <<>>, events_csv |-> <<>>,
     meta_json |-> Nothing]

\* SessionWriter.write_meta with _write_json: the file is replaced, or the
\* OSError of a failing disk is logged and the call returns all the same.
SessionWriter_write_meta(w, meta, disk) ==
    IF "session_meta.json" \in disk THEN w ELSE [w EXCEPT !.meta_json = Some(meta)]

\* SessionWriter.write_sample
SessionWriter_write_sample(w, sample) ==
    IF w.closed THEN w ELSE [w EXCEPT !.samples_csv = Append(@, sample)]

\* SessionWriter.write_event
SessionWriter_write_event(w, ev) ==
    IF w.closed THEN w ELSE [w EXCEPT !.events_csv = Append(@, ev)]

\* SessionWriter.close
SessionWriter_close(w) == [w EXCEPT !.closed = TRUE]

\* A writer exists and is not closed: its write methods reach writerow.
WriterOpen(writer) == IF writer = Nothing THEN FALSE ELSE ~Get(writer).closed

\* The files the program writes. A call's `disk` is the set of the files
\* whose writes fail with OSError (disk full, permission) during the call.
SessionFiles == {"samples.csv", "events.csv", "session_meta.json"}
ProfileFile == "calibration.json"
NoFailure == {}

\* Controller._on_transition, for each callback invocation an update made.
Controller_on_transition(writer, made) ==
    IF writer = Nothing \/ made = <<>>
    THEN writer
    ELSE Some(SessionWriter_write_event(Get(writer), made[1].event))

\* A put that finds room whatever the queue holds.
Mut_put_unbounded(q, item) == Append(q, item)

\* queue.Queue.put_nowait under "except queue.Full: pass": the new queue.
Queue_put_nowait(q, item) ==
    IF Len(q) >= QueueMaxSize THEN q ELSE Append(q, item)

\* The ids of the threads not spawned yet.
Unborn == {w \in ThreadIds : threads[w].pc = "unborn"}
Alive(w) == threads[w].pc \notin {"unborn", "done", "crashed"}

\* A step in which no Controller call returns.
NoCall == [name |-> "none", result |-> "ok"]

CtlInit ==
    /\ ctl = Controller_init
    /\ threads = [w \in ThreadIds |-> Thread("unborn")]
    /\ camera = [started |-> FALSE, frame |-> FALSE]
    /\ files = {}
    /\ ui = "idle"
    /\ cop = NoCall
    /\ signals = <<>>
    /\ wizard = Wizard_init

\* ----------------------------------------------------- controller actions
\* A reading of time.monotonic(): any value from the last reading on, up to
\* the largest reading `max` of the run.
Readings(max) == now..max

Returned(name, result) == cop' = [name |-> name, result |-> result]

\* A call that writes files returned, while the writes of `disk` failed.
ReturnedOn(name, result, disk) ==
    cop' = [name |-> name, result |-> result, disk |-> disk]

\* Controller.start_camera (Camera.start raises RuntimeError when the device
\* cannot be opened, before the face tracker is created).
StartCamera(opened) ==
    /\ ui = "idle"
    /\ ~camera.started
    /\ IF opened
       THEN /\ camera' = [camera EXCEPT !.started = TRUE]
            /\ ctl' = [ctl EXCEPT !.face_tracker = TRUE]
            /\ Returned("start_camera", "ok")
       ELSE /\ UNCHANGED <<camera, ctl>>
            /\ Returned("start_camera", "RuntimeError")
    /\ signals' = signals
    /\ UNCHANGED <<sm, now, op, calls, inputs, wizard, threads, files, ui>>

\* Camera._capture_loop stores a frame.
CaptureFrame ==
    /\ camera.started
    /\ ~camera.frame
    /\ camera' = [camera EXCEPT !.frame = TRUE]
    /\ signals' = signals
    /\ cop' = NoCall
    /\ UNCHANGED <<sm, now, op, calls, inputs, wizard, ctl, threads, files, ui>>

\* ui/session_screen.py SessionScreen.__init__: on_auto_pause is registered.
SetOnAutoPause ==
    /\ ui = "idle"
    /\ ~ctl.on_auto_pause
    /\ ctl' = [ctl EXCEPT !.on_auto_pause = TRUE]
    /\ Returned("set_on_auto_pause", "ok")
    /\ signals' = signals
    /\ UNCHANGED <<sm, now, op, calls, inputs, wizard, threads, camera, files, ui>>

\* Controller.load_calibration with the profile holding `data`, and
\* Controller.save_calibration_data with a mapper and AOI that serialise to
\* `data`: both end in _apply_calibration(data).
\* (save_calibration raises the OSError of a failing write before
\* _apply_calibration is reached.)
ApplyCalibration(name, data, disk) ==
    /\ ui = "idle"
    /\ IF name = "save_calibration_data" /\ ProfileFile \in disk
       THEN /\ UNCHANGED ctl
            /\ ReturnedOn(name, "OSError", disk)
       ELSE LET r == Controller_apply_calibration(ctl, data)
            IN  /\ ctl' = r.ctl
                /\ ReturnedOn(name, r.result, disk)
    /\ signals' = signals
    /\ UNCHANGED <<sm, now, op, calls, inputs, wizard, threads, camera, files, ui>>

\* Controller.load_calibration when the profile has no readable file.
LoadCalibrationMissing ==
    /\ ui = "idle"
    /\ Returned("load_calibration", "False")
    /\ signals' = signals
    /\ UNCHANGED <<sm, now, op, calls, inputs, wizard, ctl, threads, camera, files, ui>>

\* domain/models.py SessionMeta; `ended` stands for ended_at being set.
SessionMeta(session_id, calib_h) ==
    [session_id |-> session_id, calibration_hash |-> calib_h, ended |-> FALSE]

\* Controller.start_session, the calibrated case: the session directory and
\* writer are created, the session state is reset at the reading t, the
\* transition callback is wired and _start_worker spawns thread w.
Controller_start_session(c, dir, t, w, disk) ==
    LET meta == SessionMeta(dir, IF c.calib_data # Nothing
                                 THEN Some(calibration_hash(Get(c.calib_data)))
                                 ELSE Nothing)
    IN
    [c EXCEPT !.session_writer =
                  Some(SessionWriter_write_meta(SessionWriter_init(dir), meta, disk)),
              !.session_dir = Some(dir),
              !.session_meta = Some(meta),
              !.session_start_mono = t,
              !.samples = <<>>,
              !.ema = EMAFilter_reset(c.ema),
              !.face_lost_since = NoTime,
              !.auto_paused = FALSE,
              !.worker_running = TRUE,
              !.worker_thread = Some(w)]

\* Controller.start_session (the log of on_auto_pause invocations is the
\* session's: it starts empty with the session)
StartSession(t, max_sessions, disk) ==
    /\ ui = "idle"
    /\ IF ~is_calibrated(ctl)
       THEN /\ Returned("start_session", "RuntimeError")
            /\ UNCHANGED <<sm, now, ctl, threads, files>>
       ELSE /\ Cardinality(files) < max_sessions
            /\ Unborn # {}
            /\ LET w == CHOOSE x \in Unborn : \A y \in Unborn : x <= y
                   dir == Cardinality(files) + 1
               IN  /\ ctl' = Controller_start_session(ctl, dir, t, w, disk)
                   /\ files' = files \cup {dir}
                   /\ threads' = [threads EXCEPT ![w] = Thread("start")]
            /\ sm' = StateMachine_set_on_transition(StateMachine_reset(sm, t))
            /\ now' = t
            /\ ReturnedOn("start_session", "ok", disk)
    /\ signals' = IF is_calibrated(ctl) THEN <<>> ELSE signals
    /\ calls' = <<>>
    /\ UNCHANGED <<op, inputs, wizard, camera, ui>>

\* Controller.poll_result
PollResult ==
    /\ ui = "idle"
    /\ IF ctl.result_queue = <<>>
       THEN /\ Returned("poll_result", Nothing)
            /\ UNCHANGED ctl
       ELSE /\ Returned("poll_result", Some(Head(ctl.result_queue)))
            /\ ctl' = [ctl EXCEPT !.result_queue = Tail(@)]
    /\ signals' = signals
    /\ UNCHANGED <<sm, now, op, calls, inputs, wizard, threads, camera, files, ui>>

\* Controller._stop_worker up to the join: the running flag is cleared. (A
\* stop_session is explored while the event history has room for its closing
\* event.)
StopBegin(kind) ==
    /\ ui = "idle"
    /\ kind = "stop_session" => Len(sm.events) < MaxEvents
    /\ ctl' = [ctl EXCEPT !.worker_running = FALSE]
    /\ ui' = kind
    /\ signals' = signals
    /\ cop' = NoCall
    /\ UNCHANGED <<sm, now, op, calls, inputs, wizard, threads, camera, files>>

\* Thread.join(timeout=2.0) returns: there was no thread, the thread has
\* ended, or the timeout expired while the thread is inside the one call that
\* cannot be interrupted (the face tracker on a frame).
JoinReturns ==
    IF ctl.worker_thread = Nothing
    THEN TRUE
    ELSE IF Alive(Get(ctl.worker_thread))
    THEN threads[Get(ctl.worker_thread)].pc = "frame"
    ELSE TRUE

\* Controller.stop_session after _stop_worker's join: the open segment is
\* closed at the reading t, the closing event and the metadata are written,
\* the debrief is computed and the writer closed. The OSError of a failing
\* writerow for the closing event leaves stop_session there, before the
\* metadata, the debrief and the close.
StopSessionEnd(t, disk) ==
    /\ ui = "stop_session"
    /\ JoinReturns
    /\ LET r == StateMachine_force_end_segment(sm, t)
           w1 == IF r.ret # NoEvent /\ ctl.session_writer # Nothing
                 THEN Some(SessionWriter_write_event(Get(ctl.session_writer), r.ret))
                 ELSE ctl.session_writer
           meta == IF ctl.session_meta # Nothing
                   THEN Some([Get(ctl.session_meta) EXCEPT !.ended = TRUE])
                   ELSE Nothing
           w2 == IF meta # Nothing /\ w1 # Nothing
                 THEN Some(SessionWriter_write_meta(Get(w1), Get(meta), disk))
                 ELSE w1
           w3 == IF w2 # Nothing THEN Some(SessionWriter_close(Get(w2))) ELSE w2
       IN  /\ sm' = r.sm
           /\ calls' = r.calls
           /\ IF r.ret # NoEvent /\ WriterOpen(ctl.session_writer) /\ "events.csv" \in disk
              THEN /\ ctl' = [ctl EXCEPT !.worker_thread = Nothing]
                   /\ cop' = [name |-> "stop_session", result |-> "OSError",
                              disk |-> disk, raised |-> TRUE]
              ELSE /\ ctl' = [ctl EXCEPT !.worker_thread = Nothing,
                                         !.session_meta = meta,
                                         !.session_writer = w3]
                   /\ cop' = [name |-> "stop_session",
                              result |-> compute_debrief(ctl.samples, sm'.events,
                                                         t - ctl.session_start_mono),
                              disk |-> disk]
    /\ now' = t
    /\ ui' = "idle"
    /\ signals' = signals
    /\ UNCHANGED <<op, inputs, wizard, threads, camera, files>>

\* Controller.stop_camera after _stop_worker's join: the camera is stopped and
\* the face tracker closed and dropped.
StopCameraEnd ==
    /\ ui = "stop_camera"
    /\ JoinReturns
    /\ ctl' = [ctl EXCEPT !.worker_thread = Nothing, !.face_tracker = FALSE]
    /\ camera' = [camera EXCEPT !.started = FALSE]
    /\ ui' = "idle"
    /\ Returned("stop_camera", "ok")
    /\ signals' = signals
    /\ UNCHANGED <<sm, now, op, calls, inputs, wizard, threads, files>>

\* ------------------------------------------------------- the worker loop
\* The lost-face branch dropping the smoother's state.
Mut_face_lost_resets_smoother(c, mono_ts) ==
    LET since == IF c.face_lost_since = NoTime THEN mono_ts ELSE c.face_lost_since
        lost_for == mono_ts - since
        enters == lost_for >= AutoPauseSeconds /\ ~c.auto_paused
        c1 == [c EXCEPT !.face_lost_since = since,
                        !.auto_paused = IF enters THEN TRUE ELSE @,
                        !.ema = Nothing]
    IN  [ctl         |-> c1,
         signals     |-> IF enters /\ c.on_auto_pause THEN <<TRUE>> ELSE <<>>,
         auto_paused |-> c1.auto_paused]

\* The lost-face branch without the test of the paused flag.
Mut_face_lost_resignals(c, mono_ts) ==
    LET since == IF c.face_lost_since = NoTime THEN mono_ts ELSE c.face_lost_since
        lost_for == mono_ts - since
        enters == lost_for >= AutoPauseSeconds
        c1 == [c EXCEPT !.face_lost_since = since,
                        !.auto_paused = IF enters THEN TRUE ELSE @]
    IN  [ctl         |-> c1,
         signals     |-> IF enters /\ c.on_auto_pause THEN <<TRUE>> ELSE <<>>,
         auto_paused |-> c1.auto_paused]

\* _worker_loop, face missing or below min_confidence: the auto-pause timer
\* is started or consulted; the new controller, the signals raised and the
\* iteration's auto_paused flag.
Controller_face_lost(c, mono_ts) ==
    LET since == IF c.face_lost_since = NoTime THEN mono_ts ELSE c.face_lost_since
        lost_for == mono_ts - since
        enters == lost_for >= AutoPauseSeconds /\ ~c.auto_paused
        c1 == [c EXCEPT !.face_lost_since = since,
                        !.auto_paused = IF enters THEN TRUE ELSE @]
    IN  [ctl         |-> c1,
         signals     |-> IF enters /\ c.on_auto_pause THEN <<TRUE>> ELSE <<>>,
         auto_paused |-> c1.auto_paused]

\* The found-face branch leaving the lost-since timer running.
Mut_face_found_keeps_timer(c, face) ==
    LET p == GazeMapper_predict(face.raw)
        e == EMAFilter_update(c.ema_alpha, c.ema, p[1], p[2])
    IN  [ctl     |-> [c EXCEPT !.auto_paused = FALSE,
                               !.ema = e],
         signals |-> IF c.auto_paused /\ c.on_auto_pause THEN <<FALSE>> ELSE <<>>,
         gaze    |-> Get(e)]

\* _worker_loop, face found: the auto-pause state is cleared, the gaze is
\* predicted from the features and smoothed.
Controller_face_found(c, face) ==
    LET p == GazeMapper_predict(face.raw)
        e == EMAFilter_update(c.ema_alpha, c.ema, p[1], p[2])
    IN  [ctl     |-> [c EXCEPT !.face_lost_since = NoTime,
                               !.auto_paused = FALSE,
                               !.ema = e],
         signals |-> IF c.auto_paused /\ c.on_auto_pause THEN <<FALSE>> ELSE <<>>,
         gaze    |-> Get(e)]

FaceUsable(face) == face # Nothing /\ Get(face).confidence >= MinConfidence

\* domain/models.py GazeSample (timestamp_wall is not modelled)
GazeSample(mono_ts, gaze, conf, state) ==
    [timestamp_mono |-> mono_ts, gaze_x_norm |-> gaze[1], gaze_y_norm |-> gaze[2],
     confidence |-> conf, state |-> state]

\* domain/models.py VisionResult; `session` is a ghost naming the session
\* whose sample list received the sample.
VisionResult(sample, face_detected, auto_paused, session) ==
    [sample |-> sample, face_detected |-> face_detected,
     auto_paused |-> auto_paused, session |-> session]

Goto(w, pc) == threads' = [threads EXCEPT ![w].pc = pc]

\* The thread starts: the three assertions at the top of _worker_loop.
WorkerStart(w) ==
    /\ threads[w].pc = "start"
    /\ IF ctl.face_tracker /\ ctl.gaze_mapper # Nothing /\ ctl.aoi # Nothing
       THEN Goto(w, "check")
       ELSE Goto(w, "crashed")
    /\ signals' = signals
    /\ cop' = NoCall
    /\ UNCHANGED <<sm, now, op, calls, inputs, wizard, ctl, camera, files, ui>>

\* while self._worker_running (a session that has its max_samples samples, or
\* a full event history, is not explored further: its worker waits here for
\* the stop).
WorkerCheck(w, max_samples) ==
    /\ threads[w].pc = "check"
    /\ IF ctl.worker_running
       THEN /\ Len(ctl.samples) < max_samples
            /\ Len(sm.events) < MaxEvents
            /\ Goto(w, "frame")
       ELSE Goto(w, "done")
    /\ signals' = signals
    /\ cop' = NoCall
    /\ UNCHANGED <<sm, now, op, calls, inputs, wizard, ctl, camera, files, ui>>

\* The loop going on without a frame, as if the face were lost.
Mut_WorkerFrame_no_skip(w, t, face) ==
    /\ threads[w].pc = "frame"
    /\ IF ~camera.frame
       THEN /\ threads' = [threads EXCEPT ![w].pc = "classify",
                                          ![w].loc.face = Nothing,
                                          ![w].loc.mono_ts = t]
            /\ now' = t
            /\ Returned("get_frame", Nothing)
       ELSE IF ~ctl.face_tracker
       THEN /\ Goto(w, "crashed")
            /\ now' = t
            /\ cop' = NoCall
       ELSE /\ threads' = [threads EXCEPT ![w].pc = "classify",
                                          ![w].loc.face = face,
                                          ![w].loc.mono_ts = t]
            /\ now' = t
            /\ cop' = NoCall
    /\ signals' = signals
    /\ UNCHANGED <<sm, op, calls, inputs, wizard, ctl, camera, files, ui>>

\* camera.get_frame(), and with a frame the clock reading and
\* face_tracker.process (AttributeError when stop_camera dropped the tracker).
\* Without a frame get_frame returns None and the loop continues.
WorkerFrame(w, t, face) ==
    /\ threads[w].pc = "frame"
    /\ IF ~camera.frame
       THEN /\ Goto(w, "check")
            /\ UNCHANGED now
            /\ Returned("get_frame", Nothing)
       ELSE IF ~ctl.face_tracker
       THEN /\ Goto(w, "crashed")
            /\ now' = t
            /\ cop' = NoCall
       ELSE /\ threads' = [threads EXCEPT ![w].pc = "classify",
                                          ![w].loc.face = face,
                                          ![w].loc.mono_ts = t]
            /\ now' = t
            /\ cop' = NoCall
    /\ signals' = signals
    /\ UNCHANGED <<sm, op, calls, inputs, wizard, ctl, camera, files, ui>>

\* The branch on the face: auto-pause bookkeeping, and for a usable face the
\* prediction with self.gaze_mapper and the smoothing.
WorkerClassify(w) ==
    /\ threads[w].pc = "classify"
    /\ LET loc == threads[w].loc
       IN  IF ~FaceUsable(loc.face)
           THEN LET r == Controller_face_lost(ctl, loc.mono_ts)
                IN  /\ ctl' = r.ctl
                    /\ signals' = signals \o r.signals
                    /\ threads' = [threads EXCEPT
                          ![w].pc = "update",
                          ![w].loc.auto_paused = r.auto_paused,
                          ![w].loc.gaze = <<Half, Half>>,
                          ![w].loc.conf = 0,
                          ![w].loc.raw_state = "UNKNOWN"]
           ELSE LET r == Controller_face_found(ctl, Get(loc.face))
                IN  /\ ctl' = r.ctl
                    /\ signals' = signals \o r.signals
                    /\ threads' = [threads EXCEPT
                          ![w].pc = "hit",
                          ![w].loc.auto_paused = FALSE,
                          ![w].loc.gaze = r.gaze,
                          ![w].loc.conf = Get(loc.face).confidence,
                          ![w].loc.model = Some(Get(ctl.gaze_mapper).calib)]
    /\ cop' = NoCall
    /\ UNCHANGED <<sm, now, op, calls, inputs, wizard, camera, files, ui>>

\* point_in_polygon(gx, gy, self.aoi)
WorkerHit(w) ==
    /\ threads[w].pc = "hit"
    /\ LET loc == threads[w].loc
       IN  threads' = [threads EXCEPT
               ![w].pc = "update",
               ![w].loc.raw_state =
                   IF point_in_polygon(loc.gaze[1], loc.gaze[2], Get(ctl.aoi))
                   THEN "IN_COCKPIT" ELSE "OUT_OF_COCKPIT"]
    /\ signals' = signals
    /\ cop' = NoCall
    /\ UNCHANGED <<sm, now, op, calls, inputs, wizard, ctl, camera, files, ui>>

\* state_machine.update (with _on_transition writing a commit's event), the
\* sample, write_sample and the append to the session list. The OSError of
\* a failing writerow is caught nowhere and ends the thread: raised in the
\* transition callback it leaves _commit after the event was appended and
\* before the committed state is set; raised in write_sample it leaves the
\* loop before the sample is appended.
WorkerUpdate(w, disk) ==
    /\ threads[w].pc = "update"
    /\ LET loc == threads[w].loc
           r == StateMachine_update(sm, loc.raw_state, loc.mono_ts)
           sample == GazeSample(loc.mono_ts, loc.gaze, loc.conf, r.ret)
           w1 == Controller_on_transition(ctl.session_writer, r.calls)
           w2 == IF w1 # Nothing
                 THEN Some(SessionWriter_write_sample(Get(w1), sample))
                 ELSE w1
       IN  IF r.calls # <<>> /\ WriterOpen(ctl.session_writer) /\ "events.csv" \in disk
           THEN /\ sm' = r.calls[1].seen
                /\ calls' = r.calls
                /\ ctl' = ctl
                /\ Goto(w, "crashed")
                /\ cop' = [name |-> "write_event", result |-> "OSError"]
           ELSE IF WriterOpen(w1) /\ "samples.csv" \in disk
           THEN /\ sm' = r.sm
                /\ calls' = r.calls
                /\ ctl' = [ctl EXCEPT !.session_writer = w1]
                /\ Goto(w, "crashed")
                /\ cop' = [name |-> "write_sample", result |-> "OSError"]
           ELSE /\ sm' = r.sm
                /\ calls' = r.calls
                /\ ctl' = [ctl EXCEPT !.session_writer = w2,
                                      !.samples = Append(@, sample)]
                /\ threads' = [threads EXCEPT ![w].pc = "publish",
                                              ![w].loc.sample = Some(sample)]
                /\ cop' = NoCall
    /\ signals' = signals
    /\ UNCHANGED <<now, op, inputs, wizard, camera, files, ui>>

\* The result record and put_nowait; the iteration ends.
WorkerPublish(w) ==
    /\ threads[w].pc = "publish"
    /\ LET loc == threads[w].loc
           result == VisionResult(Get(loc.sample), FaceUsable(loc.face),
                                  loc.auto_paused, Cardinality(files))
       IN  ctl' = [ctl EXCEPT !.result_queue = Queue_put_nowait(@, result)]
    /\ threads' = [threads EXCEPT ![w] = Thread("check")]
    /\ signals' = signals
    /\ cop' = NoCall
    /\ UNCHANGED <<sm, now, op, calls, inputs, wizard, camera, files, ui>>

\* The controller's public calls, made by the UI thread in any order, and the
\* steps of the worker threads and of the camera's capture thread.
CtlNext ==
    \/ \E opened \in BOOLEAN : StartCamera(opened)
    \/ CaptureFrame
    \/ \E d \in CalibrationData : ApplyCalibration("load_calibration", d, NoFailure)
    \/ \E d \in CalibrationData : ApplyCalibration("save_calibration_data", d, NoFailure)
    \/ LoadCalibrationMissing
    \/ \E t \in Readings(MaxClock) : StartSession(t, MaxSessions, NoFailure)
    \/ PollResult
    \/ StopBegin("stop_session")
    \/ StopBegin("stop_camera")
    \/ \E t \in Readings(MaxClock) : StopSessionEnd(t, NoFailure)
    \/ StopCameraEnd
    \/ \E w \in ThreadIds : WorkerStart(w)
    \/ \E w \in ThreadIds : WorkerCheck(w, MaxSamples)
    \/ \E w \in ThreadIds, t \in Readings(MaxClock), f \in FaceResults : WorkerFrame(w, t, f)
    \/ \E w \in ThreadIds : WorkerClassify(w)
    \/ \E w \in ThreadIds : WorkerHit(w)
    \/ \E w \in ThreadIds : WorkerUpdate(w, NoFailure)
    \/ \E w \in ThreadIds : WorkerPublish(w)

\* The calibration the profile of a queue-flooding run holds.
GoodCalibration == CHOOSE d \in CalibrationData : d.id = 1

\* Faces of a queue-flooding run: none, or a confident one looking at the
\* centre of the widget.
BurstFaces == {Nothing, Some([confidence |-> MinConfidence, raw |-> <<Half, Half>>])}

\* One session of the application, from main()'s start-up to a session
\* screen that polls while the worker produces MaxBurst results; the clock is
\* not read to advance.
QueueNext ==
    \/ StartCamera(TRUE)
    \/ CaptureFrame
    \/ ApplyCalibration("load_calibration", GoodCalibration, NoFailure)
    \/ SetOnAutoPause
    \/ \E t \in Readings(now) : StartSession(t, 1, NoFailure)
    \/ PollResult
    \/ \E w \in ThreadIds : WorkerStart(w)
    \/ \E w \in ThreadIds : WorkerCheck(w, MaxBurst)
    \/ \E w \in ThreadIds, t \in Readings(now), f \in BurstFaces : WorkerFrame(w, t, f)
    \/ \E w \in ThreadIds : WorkerClassify(w)
    \/ \E w \in ThreadIds : WorkerHit(w)
    \/ \E w \in ThreadIds : WorkerUpdate(w, NoFailure)
    \/ \E w \in ThreadIds : WorkerPublish(w)

\* Sessions that follow one another in a calibrated application: start,
\* worker iterations, polls, stop, and start again (also without a stop, and
\* after a stop whose join timed out).
SessionsNext ==
    \/ StartCamera(TRUE)
    \/ CaptureFrame
    \/ ApplyCalibration("load_calibration", GoodCalibration, NoFailure)
    \/ \E t \in Readings(MaxClock) : StartSession(t, MaxThreads, NoFailure)
    \/ PollResult
    \/ StopBegin("stop_session")
    \/ \E t \in Readings(MaxClock) : StopSessionEnd(t, NoFailure)
    \/ \E w \in ThreadIds : WorkerStart(w)
    \/ \E w \in ThreadIds : WorkerCheck(w, MaxSamples)
    \/ \E w \in ThreadIds, t \in Readings(MaxClock), f \in BurstFaces : WorkerFrame(w, t, f)
    \/ \E w \in ThreadIds : WorkerClassify(w)
    \/ \E w \in ThreadIds : WorkerHit(w)
    \/ \E w \in ThreadIds : WorkerUpdate(w, NoFailure)
    \/ \E w \in ThreadIds : WorkerPublish(w)

\* Faces of a session with losses: none, one below min_confidence, or a
\* confident one looking at the centre of the widget.
PauseFaces ==
    {Nothing,
     Some([confidence |-> 10, raw |-> <<Half, Half>>]),
     Some([confidence |-> MinConfidence, raw |-> <<Half, Half>>])}

\* One session of the application in which the face comes and goes while the
\* clock advances past auto_pause_seconds. As in MainWindow._go_session, the
\* session screen registers its auto-pause observer before it starts the
\* session.
AutoPauseNext ==
    \/ StartCamera(TRUE)
    \/ CaptureFrame
    \/ ApplyCalibration("load_calibration", GoodCalibration, NoFailure)
    \/ SetOnAutoPause
    \/ \E t \in Readings(now) : ctl.on_auto_pause /\ StartSession(t, 1, NoFailure)
    \/ \E w \in ThreadIds : WorkerStart(w)
    \/ \E w \in ThreadIds : WorkerCheck(w, MaxPauseSamples)
    \/ \E w \in ThreadIds, t \in Readings(MaxPauseClock), f \in PauseFaces : WorkerFrame(w, t, f)
    \/ \E w \in ThreadIds : WorkerClassify(w)
    \/ \E w \in ThreadIds : WorkerHit(w)
    \/ \E w \in ThreadIds : WorkerUpdate(w, NoFailure)
    \/ \E w \in ThreadIds : WorkerPublish(w)

\* One session of a calibrated application on a disk whose writes can fail:
\* the calibration is saved or loaded, the session is started, the worker
\* runs MaxDiskSamples iterations and the session is stopped.
DiskNext ==
    \/ StartCamera(TRUE)
    \/ CaptureFrame
    \/ ApplyCalibration("load_calibration", GoodCalibration, NoFailure)
    \/ \E disk \in SUBSET {ProfileFile} :
          ApplyCalibration("save_calibration_data", GoodCalibration, disk)
    \/ \E t \in Readings(MaxClock), disk \in SUBSET {"session_meta.json"} :
          StartSession(t, 1, disk)
    \/ StopBegin("stop_session")
    \/ \E t \in Readings(MaxClock), disk \in SUBSET {"events.csv", "session_meta.json"} :
          StopSessionEnd(t, disk)
    \/ \E w \in ThreadIds : WorkerStart(w)
    \/ \E w \in ThreadIds : WorkerCheck(w, MaxDiskSamples)
    \/ \E w \in ThreadIds, t \in Readings(MaxClock), f \in BurstFaces : WorkerFrame(w, t, f)
    \/ \E w \in ThreadIds : WorkerClassify(w)
    \/ \E w \in ThreadIds : WorkerHit(w)
    \/ \E w \in ThreadIds, disk \in SUBSET {"samples.csv", "events.csv"} :
          WorkerUpdate(w, disk)
    \/ \E w \in ThreadIds : WorkerPublish(w)

\* Sessions as the screens of the UI run them: SessionScreen.start_session
\* starts one, end_session stops it, and the next screen starts the next
\* only after that stop returned; main() stops the camera when the event
\* loop ends.
StopNext ==
    \/ StartCamera(TRUE)
    \/ CaptureFrame
    \/ ApplyCalibration("load_calibration", GoodCalibration, NoFailure)
    \/ \E t \in Readings(MaxClock) :
          ctl.worker_thread = Nothing /\ StartSession(t, MaxThreads, NoFailure)
    \/ StopBegin("stop_session")
    \/ StopBegin("stop_camera")
    \/ \E t \in Readings(MaxClock) : StopSessionEnd(t, NoFailure)
    \/ StopCameraEnd
    \/ \E w \in ThreadIds : WorkerStart(w)
    \/ \E w \in ThreadIds : WorkerCheck(w, MaxSamples)
    \/ \E w \in ThreadIds, t \in Readings(MaxClock), f \in BurstFaces : WorkerFrame(w, t, f)
    \/ \E w \in ThreadIds : WorkerClassify(w)
    \/ \E w \in ThreadIds : WorkerHit(w)
    \/ \E w \in ThreadIds : WorkerUpdate(w, NoFailure)
    \/ \E w \in ThreadIds : WorkerPublish(w)

\* ---------------------------------------------------------- specifications
\* config.py:24 stable_ms = 200, handed to StateMachine by Controller.__init__
StableMs == 200

\* A state machine after StateMachine.__init__, beside an idle controller.
Init == SMInit /\ CtlInit

\* The state machine driven directly by a caller, as in the unit tests.
Spec == Init /\ [][SMNext]_vars

\* The state after Controller.__init__.
ControllerInit == SMInit /\ sm.stable_ms = StableMs /\ CtlInit

\* ------------------------------------------------------ gaze coordinates
\* Values of ema_alpha the thresholds dialog hands over: its spin box ranges
\* over [0.01, 1.0] (main_window.py:84).
GazeAlphas == {Rat(1, 100), Rat(EmaAlphaNum, EmaAlphaDen), Rat(1, 1)}

\* Raw outputs of the regressors, inside and outside the unit square.
GazeRaws ==
    { <<Rat(1, 4), Rat(3, 4)>>, <<Rat(3, 2), Rat(-1, 2)>>, <<Rat(-1, 2), Rat(3, 2)>> }

\* Faces of a session whose gaze is followed: none, one below
\* min_confidence, or a confident one.
GazeFaces ==
    {Nothing, Some([confidence |-> 10, raw |-> <<Rat(3, 2), Rat(-1, 2)>>])} \cup
    { Some([confidence |-> MinConfidence, raw |-> r]) : r \in GazeRaws }

\* MainWindow._open_settings with a dialog accepted after ema_alpha alone
\* was edited: controller.ema.alpha takes the new value (stable_ms is
\* assigned the value it has).
OpenSettingsAlpha(alpha) ==
    /\ ui = "idle"
    /\ alpha # ctl.ema_alpha
    /\ ctl' = [ctl EXCEPT !.ema_alpha = alpha]
    /\ sm' = StateMachine_set_stable_ms(sm, sm.stable_ms)
    /\ Returned("open_settings", "ok")
    /\ signals' = signals
    /\ UNCHANGED <<now, op, calls, inputs, wizard, threads, camera, files, ui>>

\* One session of a calibrated application in which faces come and go with
\* predictions inside and outside the screen, while the smoothing weight is
\* edited in the thresholds dialog; the clock is not read to advance.
GazeNext ==
    \/ StartCamera(TRUE)
    \/ CaptureFrame
    \/ ApplyCalibration("load_calibration", GoodCalibration, NoFailure)
    \/ \E a \in GazeAlphas : OpenSettingsAlpha(a)
    \/ \E t \in Readings(now) : StartSession(t, 1, NoFailure)
    \/ \E w \in ThreadIds : WorkerStart(w)
    \/ \E w \in ThreadIds : WorkerCheck(w, MaxGazeSamples)
    \/ \E w \in ThreadIds, t \in Readings(now), f \in GazeFaces : WorkerFrame(w, t, f)
    \/ \E w \in ThreadIds : WorkerClassify(w)
    \/ \E w \in ThreadIds : WorkerHit(w)
    \/ \E w \in ThreadIds : WorkerUpdate(w, NoFailure)
    \/ \E w \in ThreadIds : WorkerPublish(w)

SpecGaze == ControllerInit /\ [][GazeNext]_vars

\* -------------------------------------------------- calibration wizard
\* The steps of the wizard leave the session pipeline alone.
WizardFrame == UNCHANGED <<sm, now, op, calls, inputs, threads, camera, files, ui, signals>>

\* CalibrationWizard._on_next on page 0 before a run: the widget starts.
WizardStart ==
    /\ wizard.page = 0
    /\ ~wizard.step1_started
    /\ wizard.state \in {"idle", "fitting", "done"}
    /\ wizard' = [GazeCalibrationWidget_start(wizard) EXCEPT !.step1_started = TRUE]
    /\ cop' = NoCall
    /\ UNCHANGED ctl
    /\ WizardFrame

\* _tick in the settle state once _SETTLE_MS have elapsed.
TickSettle ==
    /\ wizard.state = "settle"
    /\ wizard' = [wizard EXCEPT !.state = "sample", !.current_features = 0]
    /\ cop' = NoCall
    /\ UNCHANGED ctl
    /\ WizardFrame

\* _tick in the sample state: a frame with a usable face adds its features
\* (got); once _SAMPLE_MS have elapsed (elapsed) the point is committed and
\* the dot fades.
TickSample(got, elapsed) ==
    /\ wizard.state = "sample"
    /\ LET w1 == IF got
                 THEN [wizard EXCEPT !.current_features = Min(@ + 1, MaxFeatures)]
                 ELSE wizard
       IN  wizard' = IF elapsed
                     THEN [GazeCalibrationWidget_commit_point(w1) EXCEPT !.state = "blink"]
                     ELSE w1
    /\ got \/ elapsed
    /\ cop' = NoCall
    /\ UNCHANGED ctl
    /\ WizardFrame

\* _tick in the blink state once _BLINK_MS have elapsed: the next point, or
\* after the last one _fit_model.
TickBlink ==
    /\ wizard.state = "blink"
    /\ LET w1 == [wizard EXCEPT !.point_idx = @ + 1]
       IN  IF w1.point_idx >= CalPoints
           THEN LET f == GazeCalibrationWidget_fit_model(w1)
                IN  /\ wizard' = f.wizard
                    /\ cop' = [name |-> "_fit_model", result |-> f.signal,
                               mapper |-> f.mapper]
           ELSE /\ wizard' = [w1 EXCEPT !.state = "settle", !.current_features = 0]
                /\ cop' = NoCall
    /\ UNCHANGED ctl
    /\ WizardFrame

\* CalibrationWizard._on_next on page 0 after a run, with a mapper: page 1.
WizardToStep2 ==
    /\ wizard.page = 0
    /\ wizard.step1_started
    /\ wizard.state \in {"idle", "fitting", "done"}
    /\ wizard.mapper # Nothing
    /\ wizard' = [wizard EXCEPT !.page = 1]
    /\ cop' = NoCall
    /\ UNCHANGED ctl
    /\ WizardFrame

\* CalibrationWizard._on_back
WizardBack ==
    /\ wizard.page = 1
    /\ wizard' = [wizard EXCEPT !.page = 0, !.state = "idle", !.step1_started = FALSE]
    /\ cop' = NoCall
    /\ UNCHANGED ctl
    /\ WizardFrame

\* CalibrationWizard._on_next on page 1: _save_and_finish with the polygon
\* drawn in the editor, which ends in Controller.save_calibration_data.
WizardSave(aoi) ==
    /\ wizard.page = 1
    /\ IF wizard.mapper = Nothing \/ Len(aoi) < 3
       THEN /\ cop' = [name |-> "_save_and_finish", result |-> "warning"]
            /\ UNCHANGED ctl
       ELSE LET data == [id |-> WizardCalibrationId,
                         gaze_mapper |-> Get(wizard.mapper).is_fitted,
                         aoi_polygon |-> aoi]
                r == Controller_apply_calibration(ctl, data)
            IN  /\ ctl' = r.ctl
                /\ cop' = [name |-> "save_calibration_data", result |-> r.result]
    /\ UNCHANGED wizard
    /\ WizardFrame

\* A user going through the calibration wizard, any number of times.
WizardNext ==
    \/ WizardStart
    \/ TickSettle
    \/ \E got \in BOOLEAN, elapsed \in BOOLEAN : TickSample(got, elapsed)
    \/ TickBlink
    \/ WizardToStep2
    \/ WizardBack
    \/ \E aoi \in {Square, Segment} : WizardSave(aoi)

\* ------------------------------------------------------- the hit test
\* Arguments of a call of point_in_polygon made on its own, as the unit
\* tests make it: the empty polygon, one vertex, two, a square and a
\* triangle, and points at, next to and away from their edges.
Triangle == << <<1, 1>>, <<3, 1>>, <<1, 3>> >>
HitPolygons == { <<>>, << <<2, 2>> >>, Segment, Square, Triangle }
HitCoords == { Rat(k, 64) : k \in {0, 15, 16, 17, 32, 47, 48, 49, 64} }
HitArgs == [px : HitCoords, py : HitCoords, polygon : HitPolygons]

\* A call of point_in_polygon is about to be made; no controller is involved.
HitTestInit ==
    /\ SMInit
    /\ sm.stable_ms = StableMs
    /\ ctl = Controller_init
    /\ threads = [w \in ThreadIds |-> Thread("unborn")]
    /\ camera = [started |-> FALSE, frame |-> FALSE]
    /\ files = {}
    /\ ui = "idle"
    /\ signals = <<>>
    /\ wizard = Wizard_init
    /\ cop \in [name : {"point_in_polygon"}, args : HitArgs, result : {Nothing}]

\* point_in_polygon(px, py, polygon) returns.
PointInPolygon ==
    /\ cop.name = "point_in_polygon"
    /\ cop.result = Nothing
    /\ cop' = [cop EXCEPT !.result =
                  Some(point_in_polygon(cop.args.px, cop.args.py, cop.args.polygon))]
    /\ UNCHANGED <<sm, now, op, calls, inputs, wizard, ctl, threads, camera, files, ui, signals>>

HitTestNext == PointInPolygon

\* ------------------------------------------------- the EMAFilter object
\* EMAFilter.__init__
EMAFilter_init(alpha) == [alpha |-> alpha, x |-> Nothing, y |-> Nothing]

\* alpha * x + (1.0 - alpha) * prev
EMAFilter_mix(alpha, x, prev) ==
    Rat(alpha.num * x.num * prev.den + (alpha.den - alpha.num) * prev.num * x.den,
        alpha.den * x.den * prev.den)

\* EMAFilter.update on the object: the new object; the returned point is its
\* (_x, _y).
EMAFilter_object_update(f, x, y) ==
    IF f.x = Nothing
    THEN [f EXCEPT !.x = Some(x), !.y = Some(y)]
    ELSE [f EXCEPT !.x = Some(EMAFilter_mix(f.alpha, x, Get(f.x))),
                   !.y = Some(EMAFilter_mix(f.alpha, y, Get(f.y)))]

\* A reset that forgets nothing.
Mut_object_reset_keeps(f) == f

\* EMAFilter.reset on the object
EMAFilter_object_reset(f) == [f EXCEPT !.x = Nothing, !.y = Nothing]

\* Values of alpha (the default 0.3 and a setting of 0.5) and the points fed.
EmaAlphas == {Rat(EmaAlphaNum, EmaAlphaDen), Half}
EmaPoints == { <<Rat(0, 1), Rat(1, 1)>>, <<Half, Half>>, <<Rat(1, 1), Rat(0, 1)>> }

\* A filter has just been constructed with one of the alphas; cop keeps the
\* calls made on it, each with its arguments.
EmaInit ==
    /\ SMInit
    /\ sm.stable_ms = StableMs
    /\ \E a \in EmaAlphas :
          /\ ctl = [Controller_init EXCEPT !.ema = EMAFilter_init(a)]
          /\ cop = [name |-> "EMAFilter", args |-> <<a>>, result |-> <<>>,
                    history |-> <<>>]
    /\ threads = [w \in ThreadIds |-> Thread("unborn")]
    /\ camera = [started |-> FALSE, frame |-> FALSE]
    /\ files = {}
    /\ ui = "idle"
    /\ signals = <<>>
    /\ wizard = Wizard_init

EmaFrame == UNCHANGED <<sm, now, op, calls, inputs, threads, camera, files, ui, signals, wizard>>

\* ema.update(x, y) returns.
EmaUpdate(x, y) ==
    /\ Len(cop.history) < MaxEmaCalls
    /\ LET f == EMAFilter_object_update(ctl.ema, x, y)
       IN  /\ ctl' = [ctl EXCEPT !.ema = f]
           /\ cop' = [name |-> "update", args |-> <<x, y>>,
                      result |-> <<Get(f.x), Get(f.y)>>,
                      history |-> Append(cop.history, <<"update", <<x, y>>>>)]
    /\ EmaFrame

\* ema.reset() returns.
EmaReset ==
    /\ Len(cop.history) < MaxEmaCalls
    /\ ctl' = [ctl EXCEPT !.ema = EMAFilter_object_reset(@)]
    /\ cop' = [name |-> "reset", args |-> <<>>, result |-> <<>>,
               history |-> Append(cop.history, <<"reset", <<>>>>)]
    /\ EmaFrame

\* MainWindow._open_settings: ema.alpha is assigned.
EmaSetAlpha(alpha) ==
    /\ ctl.ema.alpha # alpha
    /\ ctl' = [ctl EXCEPT !.ema.alpha = alpha]
    /\ UNCHANGED cop
    /\ EmaFrame

EmaNext ==
    \/ \E p \in EmaPoints : EmaUpdate(p[1], p[2])
    \/ EmaReset
    \/ \E a \in EmaAlphas : EmaSetAlpha(a)

\* ------------------------------------------------------------ the camera
\* Camera.__init__, with the ghost `stores`: the (frame, timestamp) pairs
\* the capture loop has stored, in order. Frames are numbered as the device
\* delivers them.
Camera_init ==
    [started |-> FALSE, frame |-> FALSE, running |-> FALSE,
     slot_frame |-> Nothing, slot_timestamp |-> 0, lock |-> "free",
     reads |-> 0, stores |-> <<>>]

\* The capture thread and a consumer thread, not inside get_frame.
CameraThreads ==
    [capture |-> [pc |-> "unborn", frame |-> 0, ts |-> 0],
     reader  |-> [pc |-> "idle", frame |-> 0]]

\* A capture loop that takes the lock whoever holds it.
Mut_Lock_acquire_unguarded(cam, who) == [cam EXCEPT !.lock = who]

\* threading.Lock.acquire by thread `who`, possible when the lock is free.
Lock_acquire(cam, who) == IF cam.lock = "free" THEN [cam EXCEPT !.lock = who] ELSE cam

\* threading.Lock.release
Lock_release(cam) == [cam EXCEPT !.lock = "free"]

CameraFrame == UNCHANGED <<sm, op, calls, inputs, ctl, files, ui, signals, wizard>>

\* Camera.start with a device that opens: the capture thread is started.
CameraStart ==
    /\ ~camera.started
    /\ threads.capture.pc = "unborn"
    /\ camera' = [camera EXCEPT !.started = TRUE, !.running = TRUE]
    /\ threads' = [threads EXCEPT !.capture.pc = "read"]
    /\ cop' = NoCall
    /\ UNCHANGED now
    /\ CameraFrame

\* Camera.stop up to its join: the flag of the capture loop is cleared.
CameraStop ==
    /\ camera.running
    /\ camera' = [camera EXCEPT !.running = FALSE]
    /\ cop' = NoCall
    /\ UNCHANGED <<threads, now>>
    /\ CameraFrame

\* _capture_loop: the loop's test and self._cap.read(); a failed read sleeps
\* and comes back here.
CaptureRead(ret) ==
    /\ threads.capture.pc = "read"
    /\ IF ~camera.running
       THEN /\ threads' = [threads EXCEPT !.capture.pc = "done"]
            /\ UNCHANGED camera
       ELSE IF ret
       THEN /\ camera.reads < MaxFrames
            /\ camera' = [camera EXCEPT !.reads = @ + 1]
            /\ threads' = [threads EXCEPT !.capture.pc = "stamp",
                                          !.capture.frame = camera.reads + 1]
       ELSE UNCHANGED <<camera, threads>>
    /\ cop' = NoCall
    /\ UNCHANGED now
    /\ CameraFrame

\* ts = time.monotonic()
CaptureStamp(t) ==
    /\ threads.capture.pc = "stamp"
    /\ threads' = [threads EXCEPT !.capture.pc = "lock", !.capture.ts = t]
    /\ now' = t
    /\ cop' = NoCall
    /\ UNCHANGED camera
    /\ CameraFrame

\* with self._lock: (entry)
CaptureLock ==
    /\ threads.capture.pc = "lock"
    /\ Lock_acquire(camera, "capture").lock = "capture"
    /\ camera' = Lock_acquire(camera, "capture")
    /\ threads' = [threads EXCEPT !.capture.pc = "frame"]
    /\ cop' = NoCall
    /\ UNCHANGED now
    /\ CameraFrame

\* self._frame = frame
CaptureStoreFrame ==
    /\ threads.capture.pc = "frame"
    /\ camera' = [camera EXCEPT !.slot_frame = Some(threads.capture.frame),
                                !.frame = TRUE]
    /\ threads' = [threads EXCEPT !.capture.pc = "timestamp"]
    /\ cop' = NoCall
    /\ UNCHANGED now
    /\ CameraFrame

\* self._timestamp = ts, and the end of the with block
CaptureStoreTimestamp ==
    /\ threads.capture.pc = "timestamp"
    /\ camera' = Lock_release(
                     [camera EXCEPT !.slot_timestamp = threads.capture.ts,
                                    !.stores = Append(@, <<threads.capture.frame,
                                                           threads.capture.ts>>)])
    /\ threads' = [threads EXCEPT !.capture.pc = "read"]
    /\ cop' = NoCall
    /\ UNCHANGED now
    /\ CameraFrame

\* get_frame: with self._lock: (entry)
GetFrameLock ==
    /\ threads.reader.pc = "idle"
    /\ Lock_acquire(camera, "reader").lock = "reader"
    /\ camera' = Lock_acquire(camera, "reader")
    /\ threads' = [threads EXCEPT !.reader.pc = "test"]
    /\ cop' = NoCall
    /\ UNCHANGED now
    /\ CameraFrame

\* get_frame: None is returned when no frame is stored, else the frame is
\* copied.
GetFrameTest ==
    /\ threads.reader.pc = "test"
    /\ IF camera.slot_frame = Nothing
       THEN /\ camera' = Lock_release(camera)
            /\ threads' = [threads EXCEPT !.reader.pc = "idle"]
            /\ Returned("get_frame", Nothing)
       ELSE /\ threads' = [threads EXCEPT !.reader.pc = "timestamp",
                                          !.reader.frame = Get(camera.slot_frame)]
            /\ cop' = NoCall
            /\ UNCHANGED camera
    /\ UNCHANGED now
    /\ CameraFrame

\* get_frame: the timestamp is read beside the copy, the with block ends and
\* the pair is returned.
GetFrameReturn ==
    /\ threads.reader.pc = "timestamp"
    /\ camera' = Lock_release(camera)
    /\ threads' = [threads EXCEPT !.reader.pc = "idle"]
    /\ Returned("get_frame", Some(<<threads.reader.frame, camera.slot_timestamp>>))
    /\ UNCHANGED now
    /\ CameraFrame

\* A Camera after __init__, its capture thread not started, and a consumer.
CameraInit ==
    /\ SMInit
    /\ sm.stable_ms = StableMs
    /\ ctl = Controller_init
    /\ threads = CameraThreads
    /\ camera = Camera_init
    /\ files = {}
    /\ ui = "idle"
    /\ cop = NoCall
    /\ signals = <<>>
    /\ wizard = Wizard_init

\* The capture thread and the consumer, each at its own pace.
CameraNext ==
    \/ CameraStart
    \/ CameraStop
    \/ \E ret \in BOOLEAN : CaptureRead(ret)
    \/ \E t \in Readings(MaxTime) : CaptureStamp(t)
    \/ CaptureLock
    \/ CaptureStoreFrame
    \/ CaptureStoreTimestamp
    \/ GetFrameLock
    \/ GetFrameTest
    \/ GetFrameReturn

\* ------------------------------------------------------ compute_debrief
\* Arguments of a call of compute_debrief made on its own, as the unit tests
\* make it: any list of events of 1..MaxTime seconds, no sample or one, and a
\* session duration of 0..MaxTime seconds.
DebriefEvents ==
    { StateEvent(f, t, 0, e) : f \in GazeState, t \in GazeState, e \in 1..MaxTime }

DebriefEventLists == UNION { [1..k -> DebriefEvents] : k \in 0..MaxDebriefEvents }

DebriefSampleLists ==
    { <<>>, << GazeSample(0, <<Half, Half>>, MinConfidence, "IN_COCKPIT") >> }

DebriefArgs ==
    [samples : DebriefSampleLists, events : DebriefEventLists,
     session_duration_s : 0..MaxTime]

\* A call of compute_debrief is about to be made; no controller is involved.
MetricsInit ==
    /\ SMInit
    /\ sm.stable_ms = StableMs
    /\ ctl = Controller_init
    /\ threads = [w \in ThreadIds |-> Thread("unborn")]
    /\ camera = [started |-> FALSE, frame |-> FALSE]
    /\ files = {}
    /\ ui = "idle"
    /\ signals = <<>>
    /\ wizard = Wizard_init
    /\ cop \in [name : {"compute_debrief"}, args : DebriefArgs, result : {Nothing}]

\* compute_debrief(samples, events, session_duration_s) returns.
ComputeDebrief ==
    /\ cop.name = "compute_debrief"
    /\ cop.result = Nothing
    /\ cop' = [cop EXCEPT !.result =
                  Some(compute_debrief(cop.args.samples, cop.args.events,
                                       cop.args.session_duration_s))]
    /\ UNCHANGED <<sm, now, op, calls, inputs, wizard, ctl, threads, camera, files, ui, signals>>

MetricsNext == ComputeDebrief

\* The controller: the UI thread's calls interleaved with the worker threads.
SpecController == ControllerInit /\ [][CtlNext]_vars

\* The controller in a session whose consumer lags behind the worker.
SpecQueue == ControllerInit /\ [][QueueNext]_vars

\* The controller in a session with face losses and an auto-pause observer.
SpecAutoPause == ControllerInit /\ [][AutoPauseNext]_vars

\* The calibration wizard beside an idle controller.
SpecWizard == ControllerInit /\ [][WizardNext]_vars

\* point_in_polygon called on its own.
SpecHitTest == HitTestInit /\ [][HitTestNext]_vars

\* An EMAFilter used on its own.
SpecEma == EmaInit /\ [][EmaNext]_vars

\* The camera's capture thread beside a consumer calling get_frame.
SpecCamera == CameraInit /\ [][CameraNext]_vars

\* Sessions started and stopped in turn.
SpecStop == ControllerInit /\ [][StopNext]_vars

\* A session whose file writes can fail.
SpecDisk == ControllerInit /\ [][DiskNext]_vars

\* compute_debrief called on its own.
SpecMetrics == MetricsInit /\ [][MetricsNext]_vars

\* The controller across consecutive sessions.
SpecSessions == ControllerInit /\ [][SessionsNext]_vars

\* ------------------------------------------------- claims: state machine
LastEvent(m) == m.events[Len(m.events)]

\* The update step under way commits: the committed state changes.
Commits == op'.name = "update" /\ sm'.committed # sm.committed

\* C1: an update whose candidate differs from the committed state, equals the
\* pending candidate and has been pending for at least stable_ms (exactly
\* stable_ms included) commits: it returns the candidate, appends exactly one
\* event (from the old committed state to the candidate, from the open
\* segment's start to t), commits the candidate, opens the new segment at t
\* and clears the pending candidate.
C1_StableCandidateCommits ==
    [][ ( /\ op'.name = "update"
          /\ op'.candidate # sm.committed
          /\ op'.candidate = sm.pending
          /\ (op'.t - sm.pending_since) * MsPerSecond >= sm.stable_ms )
        => /\ op'.ret = op'.candidate
           /\ sm'.events = Append(sm.events,
                  StateEvent(sm.committed, op'.candidate, sm.segment_start, op'.t))
           /\ sm'.committed = op'.candidate
           /\ sm'.segment_start = op'.t
           /\ sm'.pending = None
           /\ sm'.pending_since = NoTime
      ]_vars

\* A commit made exactly stable_ms (2000 ms) after the candidate first appeared.
C1_Witness ==
    /\ op.name = "update"
    /\ op.ret = op.candidate
    /\ sm.stable_ms = 2000
    /\ inputs.n >= 2 /\ inputs.last = inputs.last2
    /\ (op.t - inputs.runSince) * MsPerSecond = sm.stable_ms
    /\ sm.events # <<>>
    /\ LastEvent(sm).to_state = op.candidate
    /\ LastEvent(sm).from_state # op.candidate
    /\ LastEvent(sm).end_time = op.t
    /\ sm.segment_start = op.t
    /\ sm.pending = None

\* C2: an update changes the committed state or the event history only when
\* the update before it (since the last reset) had the same candidate and the
\* first update of that run of equal candidates lies at least stable_ms back;
\* it then commits its own candidate with one event.  A first update of a
\* candidate never commits, whatever stable_ms is.
C2_CommitOnlyAfterStableRun ==
    [][ ( /\ op'.name = "update"
          /\ (sm'.committed # sm.committed \/ sm'.events # sm.events) )
        => /\ inputs.n > 0
           /\ inputs.last = op'.candidate
           /\ (op'.t - inputs.runSince) * MsPerSecond >= sm.stable_ms
           /\ sm'.committed = op'.candidate
           /\ sm.committed # op'.candidate
           /\ Len(sm'.events) = Len(sm.events) + 1
      ]_vars

\* With stable_ms = 0 the first update did not commit and the second did.
C2_Witness ==
    /\ op.name = "update"
    /\ sm.stable_ms = 0
    /\ inputs.n = 2 /\ inputs.last = inputs.last2
    /\ inputs.runSince = op.t
    /\ Len(sm.events) = 1
    /\ sm.events[1].to_state = op.candidate
    /\ sm.events[1].from_state = "UNKNOWN"
    /\ sm.committed = op.candidate

\* C3: as long as every update since the reset alternated between two states,
\* each less than stable_ms after the one before, nothing was committed: the
\* committed state is UNKNOWN, the event history is empty and the transition
\* callback was not invoked.
C3_FlickerNeverCommits ==
    inputs.flicker =>
        /\ sm.committed = "UNKNOWN"
        /\ sm.events = <<>>
        /\ ~inputs.fired
        /\ calls = <<>>

\* Three or more alternating updates of two states other than UNKNOWN, with a
\* callback registered.
C3_Witness ==
    /\ inputs.flicker
    /\ inputs.n >= 3
    /\ op.name = "update"
    /\ inputs.last # "UNKNOWN" /\ inputs.last2 # "UNKNOWN"
    /\ sm.on_transition
    /\ sm.stable_ms > 0

\* C4: an update whose candidate differs from the committed state and from the
\* pending candidate (none pending included) makes it the pending candidate
\* with the timer at the current time, returns the committed state and changes
\* nothing else: no event, no callback.
C4_NewCandidateRestartsClock ==
    [][ ( /\ op'.name = "update"
          /\ op'.candidate # sm.committed
          /\ op'.candidate # sm.pending )
        => /\ sm' = [sm EXCEPT !.pending = op'.candidate, !.pending_since = op'.t]
           /\ op'.ret = sm.committed
           /\ calls' = <<>>
      ]_vars

\* A candidate that re-appears after another candidate interrupted it: its
\* timer starts at the re-appearance, later than its first appearance.
C4_Witness ==
    /\ op.name = "update"
    /\ inputs.n >= 3
    /\ inputs.flicker
    /\ inputs.last2 \notin {None, "UNKNOWN", inputs.last}
    /\ sm.pending = op.candidate
    /\ sm.pending_since = op.t
    /\ op.t >= 2
    /\ sm.committed = "UNKNOWN"

\* C5: an update whose candidate equals the committed state clears the pending
\* candidate and its timestamp, returns the committed state and changes
\* nothing else (committed state, segment start, event history).
C5_CommittedInputClearsPending ==
    [][ ( /\ op'.name = "update"
          /\ op'.candidate = sm.committed )
        => /\ sm' = [sm EXCEPT !.pending = None, !.pending_since = NoTime]
           /\ op'.ret = sm.committed
           /\ calls' = <<>>
      ]_vars

\* A pending candidate was interrupted by an input equal to the committed state.
C5_Witness ==
    /\ op.name = "update"
    /\ op.candidate = sm.committed
    /\ inputs.n >= 2
    /\ inputs.last2 \notin {None, inputs.last}
    /\ sm.pending = None
    /\ sm.pending_since = NoTime
    /\ sm.events = <<>>

\* C6: force_end_segment(t) with t <= segment start returns nothing and changes
\* nothing; otherwise it returns the event (committed, committed, segment
\* start, t), whose duration after a commit at time C is (t - C) * 1000 ms, and
\* the committed state is unchanged.
C6_ForceEndSegment ==
    [][ op'.name = "force_end_segment"
        => IF op'.t <= sm.segment_start
           THEN op'.ret = NoEvent /\ sm' = sm
           ELSE /\ op'.ret = StateEvent(sm.committed, sm.committed,
                                        sm.segment_start, op'.t)
                /\ sm'.committed = sm.committed
                /\ ( /\ sm.events # <<>>
                     /\ LastEvent(sm).from_state # LastEvent(sm).to_state )
                   => duration_ms(op'.ret)
                        = (op'.t - LastEvent(sm).end_time) * MsPerSecond
      ]_vars

\* A segment opened by a commit and closed one second or more later.
C6_Witness ==
    /\ op.name = "force_end_segment"
    /\ op.ret # NoEvent
    /\ Len(sm.events) = 2
    /\ sm.events[1].from_state # sm.events[1].to_state
    /\ sm.events[2] = op.ret
    /\ op.ret.start_time = sm.events[1].end_time
    /\ duration_ms(op.ret) >= 1000
    /\ sm.committed = sm.events[1].to_state

\* C7: a call invokes the registered transition callback exactly once, with
\* the event just appended, when it is an update that commits, and not at all
\* otherwise (force_end_segment, reset, an update that does not commit).
C7_CallbackOncePerCommit ==
    [][ IF Commits /\ sm.on_transition
        THEN /\ Len(calls') = 1
             /\ calls'[1].event = LastEvent(sm')
             /\ calls'[1].event =
                  StateEvent(sm.committed, op'.candidate, sm.segment_start, op'.t)
        ELSE calls' = <<>>
      ]_vars

\* The callback was invoked by a committing update.
C7_Witness ==
    /\ op.name = "update"
    /\ Len(calls) = 1
    /\ calls[1].event.to_state = op.candidate
    /\ sm.committed = op.candidate

\* C8: a fresh machine is committed to UNKNOWN, and reset(t) leaves a machine
\* that depends only on t and the configuration (stable_ms, the registered
\* callback): committed UNKNOWN, segment open at t, nothing pending, no events.
C8_ResetForgetsHistory ==
    /\ op.name = "init" => sm.committed = "UNKNOWN"
    /\ op.name = "reset" =>
          sm = [StateMachine_init(sm.stable_ms) EXCEPT
                    !.segment_start = op.t,
                    !.on_transition = sm.on_transition]

\* A reset that dropped a history of two events.
C8_Witness ==
    /\ op.name = "reset"
    /\ op.cleared = 2
    /\ op.t > 0
    /\ sm.events = <<>>
    /\ sm.committed = "UNKNOWN"

\* --------------------------------------------------- claims: controller
\* The worker w leaves the publish at the end of its iteration in this step.
Publishes(w) == threads[w].pc = "publish" /\ threads'[w].pc # "publish"

\* C9: the result queue never holds more than 5 records, however the worker
\* loop and poll_result interleave. A publish that finds the queue full drops
\* the new record and leaves the queued records as they are; a publish that
\* finds room appends the iteration's record at the tail; poll_result takes
\* the head (None from an empty queue); no other step touches the queue. The
\* publishing worker is never blocked and goes on to its loop test, neither
\* crashed nor ended.
C9_QueueBoundedDropsNewest ==
    [][ /\ Len(ctl'.result_queue) <= QueueMaxSize
        /\ \A w \in ThreadIds :
              threads[w].pc = "publish" => ENABLED WorkerPublish(w)
        /\ \A w \in ThreadIds :
              Publishes(w) =>
                /\ threads'[w].pc = "check"
                /\ IF Len(ctl.result_queue) = QueueMaxSize
                   THEN ctl'.result_queue = ctl.result_queue
                   ELSE /\ Len(ctl'.result_queue) = Len(ctl.result_queue) + 1
                        /\ SubSeq(ctl'.result_queue, 1, Len(ctl.result_queue))
                              = ctl.result_queue
                        /\ ctl'.result_queue[Len(ctl'.result_queue)].sample
                              = Get(threads[w].loc.sample)
        /\ cop'.name = "poll_result" =>
              IF ctl.result_queue = <<>>
              THEN cop'.result = Nothing /\ ctl'.result_queue = <<>>
              ELSE /\ cop'.result = Some(Head(ctl.result_queue))
                   /\ ctl'.result_queue = Tail(ctl.result_queue)
        /\ (cop'.name # "poll_result" /\ \A w \in ThreadIds : ~Publishes(w)) =>
              ctl'.result_queue = ctl.result_queue
      ]_vars

\* The sixth record of a session nobody polled was dropped: the queue holds
\* the records of the first five samples, all of frames without a face, the
\* sixth sample is of a frame with a face, and its worker is back at the loop
\* test.
C9_Witness ==
    /\ Len(ctl.result_queue) = QueueMaxSize
    /\ Len(ctl.samples) = QueueMaxSize + 1
    /\ \A i \in 1..QueueMaxSize :
          /\ ctl.result_queue[i].sample = ctl.samples[i]
          /\ ctl.samples[i].confidence = 0
    /\ ctl.samples[QueueMaxSize + 1].confidence = MinConfidence
    /\ \E w \in ThreadIds : threads[w].pc = "check"

\* The controller lacks what start_session requires: a fitted gaze model and
\* an AOI of at least 3 vertices.
NotCalibrated(c) ==
    IF c.gaze_mapper = Nothing \/ c.aoi = Nothing
    THEN TRUE
    ELSE ~Get(c.gaze_mapper).is_fitted \/ Len(Get(c.aoi)) < 3

\* C10: a start_session made without a fitted gaze model or with an AOI of
\* fewer than 3 vertices fails with RuntimeError and changes nothing: no
\* thread is spawned, no session directory or writer is created, and the
\* controller's fields (sample list, smoother, auto-pause state among them)
\* and the state machine are as they were.
C10_UncalibratedStartChangesNothing ==
    [][ (cop'.name = "start_session" /\ NotCalibrated(ctl)) =>
            /\ cop'.result = "RuntimeError"
            /\ threads' = threads
            /\ files' = files
            /\ ctl'.session_writer = ctl.session_writer
            /\ ctl'.session_dir = ctl.session_dir
            /\ ctl'.samples = ctl.samples
            /\ ctl'.ema = ctl.ema
            /\ ctl'.face_lost_since = ctl.face_lost_since
            /\ ctl'.auto_paused = ctl.auto_paused
            /\ ctl' = ctl
            /\ sm' = sm
      ]_vars

\* start_session failed on a 2-vertex AOI applied after a session that left a
\* sample, a smoother state, a writer and a closing event behind.
C10_Witness ==
    /\ cop.name = "start_session"
    /\ cop.result = "RuntimeError"
    /\ ctl.gaze_mapper # Nothing
    /\ ctl.aoi # Nothing
    /\ Len(Get(ctl.aoi)) < 3
    /\ ctl.samples # <<>>
    /\ ctl.ema # Nothing
    /\ ctl.session_writer # Nothing
    /\ sm.events # <<>>

\* ------------------------------------------------- claims: session bounds
\* The worker spawned by the latest start_session has not reached its loop.
BeforeFirstIteration(w) ==
    /\ ctl.worker_thread = Some(w)
    /\ threads[w].pc = "start"

\* The session state as start_session leaves it.
SessionStateFresh ==
    /\ ctl.samples = <<>>
    /\ ctl.ema = Nothing
    /\ sm.committed = "UNKNOWN"
    /\ sm.events = <<>>
    /\ sm.segment_start = ctl.session_start_mono
    /\ ctl.face_lost_since = NoTime
    /\ ~ctl.auto_paused

\* C11: after a successful start_session and before the worker's first
\* iteration, whatever happened in earlier sessions, the session sample list
\* is empty, the EMA smoother has no prior state, the state machine is
\* committed to UNKNOWN with an empty event history and a segment opened at
\* the session start time, and the lost-since timer and the paused flag are
\* cleared.
C11_FreshSessionBeforeFirstIteration ==
    \A w \in ThreadIds : BeforeFirstIteration(w) => SessionStateFresh

\* stop_session has returned and no session was started since: the loop flag
\* is down, the thread forgotten and the session's writer closed.
SessionStopped ==
    /\ ui = "idle"
    /\ ~ctl.worker_running
    /\ ctl.worker_thread = Nothing
    /\ ctl.session_writer # Nothing
    /\ Get(ctl.session_writer).closed

\* A step of a worker thread.
WorkerStep == cop'.name \in {"none", "get_frame"} /\ threads' # threads

\* C12: stop_session halts the pipeline loop before it force-closes the open
\* segment: once stop_session has run force_end_segment and returned, no
\* worker step updates the state machine, appends a sample or writes one, so
\* the closing event stays the last event and the sample list stays the one
\* the debrief was computed from.
C12_NoWorkerEffectAfterStop ==
    [][ (SessionStopped /\ WorkerStep) =>
            /\ sm' = sm
            /\ ctl'.samples = ctl.samples
            /\ ctl'.session_writer = ctl.session_writer
      ]_vars

\* --------------------------------------------------- claims: auto-pause
\* C13: within a session the auto-pause observer is signalled exactly once on
\* each transition into the paused state and exactly once on each recovery:
\* the values passed to on_auto_pause alternate True, False, True, ...
\* starting with True, the paused flag is up exactly after an odd number of
\* signals (none is repeated while the condition persists, none is missed),
\* the result an iteration is about to publish carries the paused flag
\* (auto_paused = true while paused), and every result of an iteration with a
\* detected face carries auto_paused = false.
C13_AutoPauseSignalsAlternate ==
    /\ \A i \in 1..Len(signals) : signals[i] = (i % 2 = 1)
    /\ ctl.auto_paused <=> (Len(signals) % 2 = 1)
    /\ \A w \in ThreadIds :
          threads[w].pc = "publish" =>
              /\ threads[w].loc.auto_paused = ctl.auto_paused
              /\ FaceUsable(threads[w].loc.face) => ~threads[w].loc.auto_paused
    /\ \A i \in 1..Len(ctl.result_queue) :
          ctl.result_queue[i].face_detected => ~ctl.result_queue[i].auto_paused

\* A session that was paused, resumed and paused again, with results of a
\* paused iteration and of an iteration with a face in the queue.
C13_Witness ==
    /\ signals = <<TRUE, FALSE, TRUE>>
    /\ ctl.auto_paused
    /\ \E i \in 1..Len(ctl.result_queue) : ctl.result_queue[i].auto_paused
    /\ \E i \in 1..Len(ctl.result_queue) : ctl.result_queue[i].face_detected

\* The iteration of thread w that is at its branch on the face.
Classifying(w) == threads[w].pc = "classify"

\* The iterations since sample i of the session all had no usable face, and
\* sample i was taken at least auto_pause_seconds before the reading t.
LostSince(i, t) ==
    /\ ctl.samples[i].timestamp_mono + AutoPauseSeconds <= t
    /\ \A j \in i..Len(ctl.samples) : ctl.samples[j].confidence = 0

\* C14: the auto-pause state is entered only in an iteration whose frame has
\* no usable face (missing, or confidence below min_confidence) and for which
\* every processed iteration since one at least auto_pause_seconds earlier
\* also had no usable face; an iteration with a usable face clears the
\* lost-since timer (and the paused flag), so separate short losses never add
\* up to an auto-pause.
C14_PauseOnlyAfterContinuousLoss ==
    [][ /\ (~ctl.auto_paused /\ ctl'.auto_paused) =>
              \E w \in ThreadIds :
                  /\ Classifying(w)
                  /\ ~FaceUsable(threads[w].loc.face)
                  /\ \E i \in 1..Len(ctl.samples) : LostSince(i, threads[w].loc.mono_ts)
        /\ \A w \in ThreadIds :
              (Classifying(w) /\ threads'[w].pc # "classify" /\ FaceUsable(threads[w].loc.face)) =>
                  /\ ctl'.face_lost_since = NoTime
                  /\ ~ctl'.auto_paused
      ]_vars

\* The pause was just entered, for the first time, in a session whose earlier
\* loss was interrupted by an iteration with a usable face.
C14_Witness ==
    /\ signals = <<TRUE>>
    /\ \E w \in ThreadIds : threads[w].pc = "update" /\ threads[w].loc.auto_paused
    /\ \E i, j, k \in 1..Len(ctl.samples) :
          /\ i < j /\ j < k
          /\ ctl.samples[i].confidence = 0
          /\ ctl.samples[j].confidence >= MinConfidence
          /\ ctl.samples[k].confidence = 0

\* The record put on the result queue last.
LastResult(c) == c.result_queue[Len(c.result_queue)]

\* C15: in an iteration where the face is missing or its confidence is below
\* min_confidence, the face branch leaves gaze (0.5, 0.5), confidence 0 and
\* the candidate UNKNOWN and does not touch the smoother or the gaze model;
\* the sample then built carries gaze (0.5, 0.5) and confidence 0 and is the
\* result of feeding UNKNOWN to the state machine, and the result record has
\* face_detected = false.
C15_LostFaceIteration ==
    [][ \A w \in ThreadIds :
          ~FaceUsable(threads[w].loc.face) =>
             /\ (threads[w].pc = "classify" /\ threads'[w].pc # "classify") =>
                   /\ threads'[w].pc = "update"
                   /\ threads'[w].loc.gaze = <<Half, Half>>
                   /\ threads'[w].loc.conf = 0
                   /\ threads'[w].loc.raw_state = "UNKNOWN"
                   /\ ctl'.ema = ctl.ema
                   /\ ctl'.gaze_mapper = ctl.gaze_mapper
             /\ (threads[w].pc = "update" /\ threads'[w].pc # "update") =>
                   /\ ctl'.samples = Append(ctl.samples,
                          GazeSample(threads[w].loc.mono_ts, <<Half, Half>>, 0,
                                     StateMachine_update(sm, "UNKNOWN", threads[w].loc.mono_ts).ret))
                   /\ sm' = StateMachine_update(sm, "UNKNOWN", threads[w].loc.mono_ts).sm
                   /\ ctl'.ema = ctl.ema
             /\ (threads[w].pc = "publish" /\ threads'[w].pc # "publish") =>
                   /\ ctl'.ema = ctl.ema
                   /\ Len(ctl.result_queue) < QueueMaxSize =>
                         /\ ~LastResult(ctl').face_detected
                         /\ LastResult(ctl').sample = Get(threads[w].loc.sample)
                         /\ LastResult(ctl').sample.confidence = 0
                         /\ LastResult(ctl').sample.gaze_x_norm = Half
                         /\ LastResult(ctl').sample.gaze_y_norm = Half
      ]_vars

\* An iteration with a face below min_confidence has built its sample while
\* the smoother holds the state an earlier usable face left.
C15_Witness ==
    /\ ctl.ema # Nothing
    /\ \E w \in ThreadIds :
          /\ threads[w].pc = "publish"
          /\ threads[w].loc.face # Nothing
          /\ ~FaceUsable(threads[w].loc.face)
          /\ threads[w].loc.sample # Nothing
          /\ Get(threads[w].loc.sample).confidence = 0
          /\ Get(threads[w].loc.sample).gaze_x_norm = Half
          /\ ctl.samples[Len(ctl.samples)] = Get(threads[w].loc.sample)

\* ------------------------------------------------ claims: samples, results
\* s is a subsequence of t: its elements occur in t in the same order.
RECURSIVE IsSubsequence(_, _)
IsSubsequence(s, t) ==
    IF s = <<>> THEN TRUE
    ELSE IF t = <<>> THEN FALSE
    ELSE IF Head(s) = Head(t) THEN IsSubsequence(Tail(s), Tail(t))
    ELSE IsSubsequence(s, Tail(t))

\* The samples of the records of a queue, in queue order.
SamplesOf(q) == [i \in 1..Len(q) |-> q[i].sample]

\* C16: every worker iteration that obtains a frame appends exactly one
\* GazeSample to the session list and forwards it to the session writer,
\* whether or not the full queue drops its result record; the sample's state
\* is the committed state returned by that iteration's state-machine update;
\* and the record a poll_result returns within a session, followed by the
\* records still queued, is in order a subsequence of the session sample list.
C16_OneSamplePerIteration ==
    [][ /\ \A w \in ThreadIds :
              (threads[w].pc = "update" /\ threads'[w].pc # "update") =>
                  LET ret == StateMachine_update(sm, threads[w].loc.raw_state,
                                                 threads[w].loc.mono_ts).ret
                      sample == GazeSample(threads[w].loc.mono_ts, threads[w].loc.gaze,
                                           threads[w].loc.conf, ret)
                  IN  /\ ctl'.samples = Append(ctl.samples, sample)
                      /\ (ctl.session_writer # Nothing /\ ~Get(ctl.session_writer).closed) =>
                            Get(ctl'.session_writer).samples_csv =
                                Append(Get(ctl.session_writer).samples_csv, sample)
        /\ \A w \in ThreadIds :
              (threads[w].pc = "publish" /\ threads'[w].pc # "publish") =>
                  ctl'.samples = ctl.samples
        /\ (cop'.name = "poll_result" /\ cop'.result # Nothing /\ ctl.worker_running) =>
              IsSubsequence(<<Get(cop'.result).sample>> \o SamplesOf(ctl'.result_queue),
                            ctl'.samples)
      ]_vars

\* ------------------------------------------------------ claims: debrief
\* n_out_glances as compute_debrief reports it for an event history.
GlancesReported(events) == compute_debrief(<<>>, events, 0).n_out_glances

\* The step under way makes the committed state enter OUT_OF_COCKPIT.
EntersOut == sm.committed # "OUT_OF_COCKPIT" /\ sm'.committed = "OUT_OF_COCKPIT"

\* C17: n_out_glances reported by the debrief equals the number of times the
\* committed state entered OUT_OF_COCKPIT during the session, for every event
\* history the state machine produces from update calls and the closing event
\* of force_end_segment: the count is 0 after a reset, grows by one in a step
\* in which the committed state enters OUT_OF_COCKPIT and does not change in
\* any other step (a force_end_segment made while committed to
\* OUT_OF_COCKPIT included).
C17_GlancesAreEntriesIntoOut ==
    [][ GlancesReported(sm'.events) =
            (IF op'.name = "reset" THEN 0 ELSE GlancesReported(sm.events))
            + (IF EntersOut THEN 1 ELSE 0)
      ]_vars

\* A call of compute_debrief has returned.
DebriefReturned == cop.name = "compute_debrief" /\ cop.result # Nothing

\* The milliseconds the events of a list spend in `state`: each event counts
\* for the state it leaves.
RECURSIVE TimeIn(_, _)
TimeIn(events, state) ==
    IF events = <<>> THEN 0
    ELSE (IF Head(events).from_state = state
          THEN (Head(events).end_time - Head(events).start_time) * MsPerSecond
          ELSE 0)
         + TimeIn(Tail(events), state)

\* The positions of the events of a list that leave OUT_OF_COCKPIT.
OutPositions(events) ==
    {i \in 1..Len(events) : events[i].from_state = "OUT_OF_COCKPIT"}

\* C18: compute_debrief reports, for each state, the sum of the durations of
\* exactly the events whose from_state is that state (closing events with
\* from = to included, to_state ignored); out_durations_ms lists the durations
\* of exactly the events with from_state = OUT_OF_COCKPIT, in event order; and
\* avg, median and max of that list are all 0 when it is empty.
C18_DurationsGroupedByFromState ==
    DebriefReturned =>
        LET r == Get(cop.result)
            events == cop.args.events
            out == OutPositions(events)
        IN  /\ r.in_cockpit_s = TimeIn(events, "IN_COCKPIT")
            /\ r.out_cockpit_s = TimeIn(events, "OUT_OF_COCKPIT")
            /\ r.unknown_s = TimeIn(events, "UNKNOWN")
            /\ Len(r.out_durations_ms) = Cardinality(out)
            /\ \A i \in out :
                  r.out_durations_ms[Cardinality({j \in out : j <= i})] =
                      (events[i].end_time - events[i].start_time) * MsPerSecond * 10
            /\ out = {} =>
                  /\ r.out_durations_ms = <<>>
                  /\ r.avg_out_ms = 0
                  /\ r.median_out_ms = 0
                  /\ r.max_out_ms = 0

\* The debrief of a 2 s glance out left for IN_COCKPIT followed by a 1 s
\* closing segment in OUT_OF_COCKPIT.
C18_Witness ==
    /\ DebriefReturned
    /\ Len(cop.args.events) = 2
    /\ cop.args.events[1].to_state = "IN_COCKPIT"
    /\ cop.args.events[2].from_state = cop.args.events[2].to_state
    /\ Get(cop.result).out_durations_ms = <<20000, 10000>>
    /\ Get(cop.result).out_cockpit_s = 3000
    /\ Get(cop.result).in_cockpit_s = 0

\* C19: when the session duration passed to compute_debrief is 0, for every
\* sample list and event list, all three state percentages are reported as 0
\* (and no division by zero occurs: a figure is reported); for the empty
\* session (no samples, no events) total_duration_s = 0, n_out_glances = 0,
\* out_durations_ms is empty and avg, median and max are 0.
C19_ZeroDurationReportsZeroPercent ==
    (DebriefReturned /\ cop.args.session_duration_s = 0) =>
        LET r == Get(cop.result)
        IN  /\ r.in_cockpit_pct = 0
            /\ r.out_cockpit_pct = 0
            /\ r.unknown_pct = 0
            /\ (cop.args.samples = <<>> /\ cop.args.events = <<>>) =>
                  /\ r.total_duration_s = 0
                  /\ r.n_out_glances = 0
                  /\ r.out_durations_ms = <<>>
                  /\ r.avg_out_ms = 0
                  /\ r.median_out_ms = 0
                  /\ r.max_out_ms = 0

\* ------------------------------------------------- claims: calibration
\* Thread w is inside the while loop of _worker_loop.
InLoop(w) == threads[w].pc \in {"check", "frame", "classify", "hit", "update", "publish"}

\* C20: in every reachable state in which the pipeline worker loop is
\* running, the controller's gaze model is fitted and its AOI has at least 3
\* vertices, whatever load_calibration and save_calibration_data calls are
\* interleaved with the loop (so predict cannot fail with NotFitted and the
\* hit test cannot degenerate to always-false during a session).
C20_CalibratedWhileLoopRuns ==
    (\E w \in ThreadIds : InLoop(w)) => is_calibrated(ctl)

WriteFailed == cop.name \in {"write_sample", "write_event"}

\* C22: a failure while writing a sample or transition-event record is
\* skipped without aborting the session: the worker that met it goes on with
\* its iteration (it is at the publish step, not ended), the iteration's
\* sample is the last one of the in-memory session list, and a stop_session
\* on the failing disk still returns a debrief instead of raising.
C22_WriteFailureSkipped ==
    /\ WriteFailed =>
          \E w \in ThreadIds :
              /\ threads[w].pc = "publish"
              /\ threads[w].loc.sample # Nothing
              /\ ctl.samples # <<>>
              /\ ctl.samples[Len(ctl.samples)] = Get(threads[w].loc.sample)
    /\ cop.name = "stop_session" => "raised" \notin DOMAIN cop

\* The write of `file` failed during the call that has just returned.
FailedOn(file) == IF "disk" \in DOMAIN cop THEN file \in cop.disk ELSE FALSE

\* The session's metadata record as session_meta.json holds it.
PersistedMeta ==
    IF ctl.session_writer = Nothing THEN Nothing ELSE Get(ctl.session_writer).meta_json

\* C23: a failure to persist the session metadata record or the calibration
\* artifact is surfaced to the caller: start_session and stop_session do not
\* return normally when the write of session_meta.json failed (so after a
\* normal return the file holds the session's metadata), and
\* save_calibration_data does not when the write of calibration.json failed.
C23_PersistenceFailureSurfaced ==
    /\ (cop.name = "start_session" /\ FailedOn("session_meta.json")) =>
          cop.result # "ok"
    /\ (cop.name = "start_session" /\ cop.result = "ok") =>
          PersistedMeta = ctl.session_meta
    /\ (cop.name = "stop_session" /\ ctl.session_meta # Nothing
            /\ ctl.session_writer # Nothing) =>
          /\ FailedOn("session_meta.json") => "raised" \in DOMAIN cop
          /\ "raised" \notin DOMAIN cop => PersistedMeta = ctl.session_meta
    /\ (cop.name = "save_calibration_data" /\ FailedOn(ProfileFile)) =>
          cop.result = "OSError"

\* ----------------------------------------------------- claims: the worker
\* The worker threads that have been started and have not ended.
AliveWorkers == {w \in ThreadIds : Alive(w)}

\* C24: at most one pipeline worker is alive at any time, whatever the
\* sequence of start_session and stop_session calls and the scheduling of
\* the worker (a join that times out, a start_session during a session).
C24_AtMostOneWorkerAlive == Cardinality(AliveWorkers) <= 1


\* The running flag was cleared for worker w, which has not ended: a stop is
\* waiting for it, or the stop's join timed out and dropped its handle.
StopSignalled(w) ==
    /\ Alive(w)
    /\ \/ ui \in {"stop_session", "stop_camera"} /\ ctl.worker_thread = Some(w)
       \/ ctl.worker_thread # Some(w)

\* Worker w passes the loop's test and starts an iteration.
StartsIteration(w) == threads[w].pc = "check" /\ threads'[w].pc = "frame"

\* C25: session stop is cooperative and terminates: once stop_session or
\* stop_camera has cleared the running flag, the worker starts no further
\* iteration; it only completes the iteration in progress and exits.
C25_StoppedWorkerStartsNoIteration ==
    [][ \A w \in ThreadIds : StopSignalled(w) => ~StartsIteration(w) ]_vars

\* --------------------------------------------------- claims: the camera
LastStore == camera.stores[Len(camera.stores)]

\* C26: the camera handoff is a single last-write-wins slot. get_frame
\* returns None as long as the capture loop has stored no frame, and
\* afterwards the most recently stored frame with the timestamp stored in the
\* same critical section; outside the capture loop's critical section the slot
\* holds exactly the last stored pair; and the consumer holds the lock only
\* inside get_frame, so the capture loop is not held back by a consumer that
\* reads slowly or not at all.
C26_SingleSlotLastWriteWins ==
    /\ cop.name = "get_frame" =>
          IF camera.stores = <<>>
          THEN cop.result = Nothing
          ELSE cop.result = Some(LastStore)
    /\ (camera.lock # "capture" /\ camera.stores # <<>>) =>
          /\ camera.slot_frame = Some(LastStore[1])
          /\ camera.slot_timestamp = LastStore[2]
    /\ threads.reader.pc = "idle" => camera.lock # "reader"
    /\ threads.capture.pc \in {"unborn", "read", "stamp", "lock", "done"} =>
          camera.lock # "capture"

\* get_frame returned the third frame with its own timestamp; the two frames
\* stored before, with earlier timestamps, were overwritten.
C26_Witness ==
    /\ cop.name = "get_frame"
    /\ cop.result = Some(<<3, 2>>)
    /\ camera.stores = << <<1, 0>>, <<2, 1>>, <<3, 2>> >>

\* ------------------------------------------------- claims: the EMAFilter
\* The step is the return of a call `name` on the filter.
EmaCall(name) ==
    /\ Len(cop'.history) = Len(cop.history) + 1
    /\ cop'.name = name

\* No update was made on the filter since its construction or last reset.
EmaFresh ==
    IF cop.history = <<>> THEN TRUE ELSE cop.history[Len(cop.history)][1] = "reset"

\* C27: EMAFilter.update returns its input unchanged on the first call after
\* construction and on the first call after reset(), whatever was fed before
\* the reset and whatever alpha is; reset leaves alpha unchanged.
C27_FirstUpdateReturnsInput ==
    [][ /\ (EmaCall("update") /\ EmaFresh) => cop'.result = cop'.args
        /\ EmaCall("reset") => ctl'.ema.alpha = ctl.ema.alpha ]_vars

\* Two different points were fed and blended, the filter was reset, and the
\* next update returned its input.
C27_Witness ==
    /\ cop.name = "update"
    /\ Len(cop.history) = 4
    /\ cop.history[1] = <<"update", <<Rat(0, 1), Rat(1, 1)>>>>
    /\ cop.history[2] = <<"update", <<Half, Half>>>>
    /\ cop.history[3][1] = "reset"
    /\ cop.args = <<Rat(1, 1), Rat(0, 1)>>
    /\ cop.result = cop.args
    /\ ctl.ema.alpha = Rat(EmaAlphaNum, EmaAlphaDen)

\* -------------------------------------------------- claims: the hit test
HitReturned == cop.name = "point_in_polygon" /\ cop.result # Nothing

\* The point as given lies on an edge or vertex of the polygon as given, or
\* strictly inside it.
InsideOrOnBoundary(px, py, polygon) ==
    PolygonTestNonNegative(
        [i \in 1..Len(polygon) |-> GridVertex(polygon[i], px, py)],
        GridPoint(px, py))

\* C28: point_in_polygon returns false for every point whenever the polygon
\* has fewer than 3 vertices (empty, one vertex, two), also for a point that
\* lies on the vertex or the segment, where the geometric test would answer
\* "on the boundary".
C28_DegeneratePolygonIsOutside ==
    (HitReturned /\ Len(cop.args.polygon) < 3) => Get(cop.result) = FALSE

\* The point is the middle of a two-vertex polygon, which the geometric
\* test counts as on the boundary, and the hit test answered false.
C28_Witness ==
    /\ HitReturned
    /\ cop.args.polygon = Segment
    /\ cop.args.px = Half
    /\ cop.args.py = Half
    /\ InsideOrOnBoundary(Half, Half, Segment)
    /\ Get(cop.result) = FALSE

\* C29: for a polygon with at least 3 vertices point_in_polygon is
\* boundary-inclusive: it answers true for every point on an edge or vertex
\* and for every point strictly inside, and false for every point strictly
\* outside.
C29_BoundaryInclusive ==
    (HitReturned /\ Len(cop.args.polygon) >= 3) =>
        Get(cop.result) = InsideOrOnBoundary(cop.args.px, cop.args.py, cop.args.polygon)

\* ------------------------------------------- claims: the transition callback
\* C30: when the transition callback is invoked for a commit, the state
\* machine it can observe has already applied that commit: current_state is
\* the event's to_state, the new segment is open at the commit time, the
\* pending candidate is cleared and the event is the last of the history.
C30_CallbackSeesCommitApplied ==
    \A i \in 1..Len(calls) :
        LET event == calls[i].event
            seen  == calls[i].seen
        IN  event.from_state # event.to_state =>
                /\ current_state(seen) = event.to_state
                /\ seen.segment_start = event.end_time
                /\ seen.pending = None
                /\ seen.pending_since = NoTime
                /\ seen.events # <<>>
                /\ LastEvent(seen) = event

\* ------------------------------------------------ claims: skipped iteration
\* C31: a worker iteration that finds no frame available is skipped with no
\* effect: no sample is created or written, the state machine and the
\* smoother are not updated, the auto-pause timer and flag are unchanged,
\* nothing is published to the result queue and no error is raised (the
\* thread is back at the loop's test, with the locals of no iteration).
C31_NoFrameIterationSkipped ==
    [][ \A w \in ThreadIds :
          (threads[w].pc = "frame" /\ ~camera.frame /\ threads'[w] # threads[w]) =>
             /\ ctl' = ctl
             /\ sm' = sm
             /\ calls' = calls
             /\ signals' = signals
             /\ files' = files
             /\ camera' = camera
             /\ threads'[w] = Thread("check")
      ]_vars

\* A session is running, no frame has been captured, and the worker just
\* came back from get_frame with nothing: the session is as start_session
\* left it.
C31_Witness ==
    /\ cop = [name |-> "get_frame", result |-> Nothing]
    /\ ~camera.frame
    /\ ctl.worker_running
    /\ \E w \in ThreadIds : ctl.worker_thread = Some(w) /\ threads[w] = Thread("check")
    /\ ctl.samples = <<>>
    /\ ctl.result_queue = <<>>
    /\ ctl.ema = Nothing
    /\ ctl.face_lost_since = NoTime
    /\ sm.events = <<>>
    /\ Get(ctl.session_writer).samples_csv = <<>>

\* ------------------------------------------- claims: calibration snapshot
\* Thread w takes the step that runs point_in_polygon on self.aoi.
HitStep(w) == threads[w].pc = "hit" /\ threads'[w].pc # "hit"

\* C32: applying a calibration while a session is running never lets one
\* pipeline iteration use the gaze model of one calibration together with
\* the AOI polygon of another: the polygon an iteration's hit test reads is
\* the polygon of the calibration whose model made the iteration's
\* prediction.
C32_ModelAndAoiOfOneCalibration ==
    [][ \A w \in ThreadIds :
          HitStep(w) =>
             \E d \in CalibrationData :
                /\ Some(d.id) = threads[w].loc.model
                /\ Get(ctl.aoi) = d.aoi_polygon
      ]_vars

\* ------------------------------------------------ claims: gaze coordinates
\* The rational x lies in [0, 1].
InUnit(x) == 0 <= x.num /\ x.num <= x.den

GazeInUnit(sample) == InUnit(sample.gaze_x_norm) /\ InUnit(sample.gaze_y_norm)

\* C33: every GazeSample produced by the pipeline has gaze_x_norm and
\* gaze_y_norm in [0,1], for every sequence of iterations mixing face-found
\* and face-lost frames and every ema_alpha in (0,1]: in the session's sample
\* list, in samples.csv, in the results queued for the UI, and the smoother's
\* state stays in the unit square.
C33_GazeInUnitSquare ==
    /\ \A i \in 1..Len(ctl.samples) : GazeInUnit(ctl.samples[i])
    /\ \A i \in 1..Len(ctl.result_queue) : GazeInUnit(ctl.result_queue[i].sample)
    /\ ctl.session_writer # Nothing =>
          \A i \in 1..Len(Get(ctl.session_writer).samples_csv) :
             GazeInUnit(Get(ctl.session_writer).samples_csv[i])
    /\ ctl.ema # Nothing => InUnit(Get(ctl.ema)[1]) /\ InUnit(Get(ctl.ema)[2])

\* Three samples: a prediction clamped from outside the screen, a lost face
\* at the centre, and a blend made with a weight set in the dialog that is
\* neither of the two points blended.
C33_Witness ==
    /\ Len(ctl.samples) = 3
    /\ ctl.samples[1].gaze_x_norm = Rat(1, 1)
    /\ ctl.samples[1].gaze_y_norm = Rat(0, 1)
    /\ ctl.samples[2].confidence = 0
    /\ ctl.samples[2].gaze_x_norm = Half
    /\ ctl.samples[3].confidence = MinConfidence
    /\ ctl.ema_alpha = Rat(1, 100)
    /\ ctl.samples[3].gaze_x_norm \notin {Rat(0, 1), Rat(1, 1), Rat(1, 4)}
    /\ ctl.samples[3].gaze_x_norm = Get(ctl.ema)[1]

\* ------------------------------------------------ claims: event history
\* C34: for every sequence of update calls with non-decreasing timestamps
\* after reset(t0), followed by at most one force_end_segment, the event
\* history tiles time without gaps or overlap: the first event starts at t0
\* with from_state UNKNOWN, each later event starts where the previous one
\* ended, in the state the previous one led to, every event has a
\* non-negative duration, and every event emitted by a commit has from_state
\* different from to_state (the closing event, the last one, has them equal).
C34_EventsTileTime ==
    inputs.forced <= 1 =>
       LET ev == sm.events
           n  == Len(ev)
       IN  /\ n > 0 => ev[1].start_time = inputs.t0 /\ ev[1].from_state = "UNKNOWN"
           /\ \A i \in 2..n :
                 /\ ev[i].start_time = ev[i - 1].end_time
                 /\ ev[i].from_state = ev[i - 1].to_state
           /\ \A i \in 1..n :
                 /\ duration_ms(ev[i]) >= 0
                 /\ IF inputs.closed /\ i = n
                    THEN ev[i].from_state = ev[i].to_state
                    ELSE ev[i].from_state # ev[i].to_state

\* After a reset at 1 a commit of zero duration was followed by the closing
\* event of the segment it opened.
C34_Witness ==
    /\ inputs.t0 = 1
    /\ inputs.forced = 1
    /\ inputs.closed
    /\ sm.events = << StateEvent("UNKNOWN", "OUT_OF_COCKPIT", 1, 1),
                      StateEvent("OUT_OF_COCKPIT", "OUT_OF_COCKPIT", 1, 2) >>

\* ------------------------------------------------ claims: debrief totals
\* The step is the return of the stop_session that ends a started session:
\* its writer was open and the call returned a debrief.
EndsSession ==
    /\ ui = "stop_session"
    /\ ui' = "idle"
    /\ WriterOpen(ctl.session_writer)
    /\ "raised" \notin DOMAIN cop'

\* C35: for a session started by start_session and ended by stop_session,
\* the per-state times of the debrief add up to the total session duration:
\* in_cockpit_s + out_cockpit_s + unknown_s equals total_duration_s, the
\* events from the session start to the closing event covering the whole
\* interval exactly once.
C35_StateTimesSumToDuration ==
    [][ EndsSession =>
           cop'.result.in_cockpit_s + cop'.result.out_cockpit_s + cop'.result.unknown_s
              = cop'.result.total_duration_s
      ]_vars

\* ------------------------------------------------ claims: polled results
\* poll_result has just returned a record, after a session was started.
PolledInSession ==
    /\ cop.name = "poll_result"
    /\ cop.result # Nothing
    /\ ctl.session_writer # Nothing

\* C36: after start_session returns, every record returned by poll_result
\* belongs to the new session: its sample is in the new session's sample
\* list and its timestamp is not earlier than the session start; records left
\* in the result queue by a previous session are never delivered as results
\* of the new one.
C36_PolledResultsAreOfTheSession ==
    PolledInSession =>
       /\ \E i \in 1..Len(ctl.samples) : ctl.samples[i] = Get(cop.result).sample
       /\ Get(cop.result).sample.timestamp_mono >= ctl.session_start_mono
       /\ Get(cop.result).session = Cardinality(files)

\* ------------------------------------------------ claims: the event log
\* The part of the history the session's writer was open for: all of it
\* while the writer is open, a prefix of it once the writer is closed.
LoggedPart(k) ==
    /\ k \in 0..Len(sm.events)
    /\ WriterOpen(ctl.session_writer) => k = Len(sm.events)

\* C37: every event in the state machine's history of a session is written
\* to the session event log exactly once and in history order (commit events
\* through the transition callback during the update that commits them, the
\* closing event by stop_session); no event is written twice and none is
\* skipped while the writer is open.
C37_EveryEventLoggedOnce ==
    ctl.session_writer # Nothing =>
       \E k \in 0..Len(sm.events) :
          /\ LoggedPart(k)
          /\ Get(ctl.session_writer).events_csv = SubSeq(sm.events, 1, k)

\* ------------------------------------------- claims: calibration identity
\* The hash in the session metadata of controller c is the hash of the
\* calibration data its gaze model and AOI were built from.
HashOfModelAndAoi(c) ==
    \E d \in CalibrationData :
       /\ d.id = Get(c.gaze_mapper).calib
       /\ Get(c.aoi) = d.aoi_polygon
       /\ Get(c.session_meta).calibration_hash = Some(calibration_hash(d))

\* The step is a load_calibration or save_calibration_data that failed.
ApplyFailed ==
    /\ cop'.name \in {"load_calibration", "save_calibration_data"}
    /\ cop'.result # "ok"

\* C38: the calibration hash recorded in a session's metadata is always the
\* hash of the calibration data from which the gaze model and AOI used by
\* that session were built; applying a calibration is all-or-nothing, so an
\* apply that fails part-way (for example on malformed gaze-model data)
\* leaves the stored calibration data, the gaze model and the AOI all
\* unchanged.
C38_HashIsOfTheCalibrationInUse ==
    [][ /\ (cop'.name = "start_session" /\ cop'.result = "ok") => HashOfModelAndAoi(ctl')
        /\ ApplyFailed =>
              /\ ctl'.calib_data = ctl.calib_data
              /\ ctl'.gaze_mapper = ctl.gaze_mapper
              /\ ctl'.aoi = ctl.aoi
      ]_vars

\* --------------------------------------- claims: frame of force_end_segment
\* C39: a force_end_segment call that returns an event changes nothing but
\* the event history: the committed state, the pending candidate and its
\* timestamp and the open segment's start are all unchanged (as are
\* stable_ms and the registered callback), and the returned event is
\* appended to the history exactly once.
C39_ForceEndSegmentOnlyAppends ==
    [][ (op'.name = "force_end_segment" /\ op'.ret # NoEvent)
        => sm' = [sm EXCEPT !.events = Append(sm.events, op'.ret)]
      ]_vars

\* A segment opened by a commit was closed while a candidate was pending:
\* the candidate and its timestamp are still there, the segment start is
\* still the commit's time, and the history ends with the one closing event.
C39_Witness ==
    /\ op.name = "force_end_segment"
    /\ op.ret # NoEvent
    /\ sm.pending \notin {None, sm.committed}
    /\ sm.pending_since # NoTime
    /\ Len(sm.events) = 2
    /\ sm.events[2] = op.ret
    /\ sm.events[1] # op.ret
    /\ sm.segment_start = sm.events[1].end_time
    /\ sm.segment_start = op.ret.start_time
    /\ sm.segment_start > 0
    /\ sm.committed = sm.events[1].to_state

====
